---- MODULE Spec2Model ----
(***************************************************************************)
(* A model of the ray tracer's core: the matrix algebra, hit selection,    *)
(* the refractive-index walk of prepare, the recursive shading of World    *)
(* (color_at / shade_hit / reflected_color / refracted_color) and the      *)
(* render loop of Camera.                                                  *)
(*                                                                         *)
(* Numbers.  The program computes in f64.  The model computes in exact     *)
(* rational arithmetic: a number is a pair <<n, d>> with d > 0 and         *)
(* gcd(n, d) = 1.  Every input the model draws is a rational, and every    *)
(* operation the modelled code applies to it (+, -, *, /, comparison,      *)
(* square, fifth power, square root of a perfect square) is exact on it.   *)
(***************************************************************************)
EXTENDS Integers, Sequences, FiniteSets, TLC

\* ------------------------------------------------------------------------
\* Exact rationals (the model's f64)
\* ------------------------------------------------------------------------
IAbs(i) == IF i < 0 THEN -i ELSE i

RECURSIVE Gcd(_, _)
Gcd(a, b) == IF b = 0 THEN a ELSE Gcd(b, a % b)

Rat(n, d) ==
    LET s == IF d < 0 THEN -1 ELSE 1
        g == Gcd(IAbs(n), IAbs(d))
    IN  <<(s * n) \div g, (s * d) \div g>>

R(i) == <<i, 1>>
RZero == <<0, 1>>
ROne == <<1, 1>>
\* The arithmetic takes its operands by value: Bind2 evaluates a and b once
\* and hands the values to Op.
Bind2(Op(_, _), a, b) == CHOOSE r \in {Op(x, y) : x \in {a}, y \in {b}} : TRUE

\* sums go over the least common denominator, to keep the integers small
Lcm(a, b) == (a \div Gcd(a, b)) * b
RAddV(a, b) == Rat(a[1] * (Lcm(a[2], b[2]) \div a[2]) + b[1] * (Lcm(a[2], b[2]) \div b[2]),
                   Lcm(a[2], b[2]))
RMulV(a, b) == Rat(a[1] * b[1], a[2] * b[2])
RDivV(a, b) == Rat(a[1] * b[2], a[2] * b[1])
RLtV(a, b) == a[1] * b[2] < b[1] * a[2]
RLeV(a, b) == a[1] * b[2] <= b[1] * a[2]

RAdd(a, b) == Bind2(RAddV, a, b)
RNeg(a) == <<-a[1], a[2]>>
RSub(a, b) == RAdd(a, RNeg(b))
RMul(a, b) == Bind2(RMulV, a, b)
RDiv(a, b) == Bind2(RDivV, a, b)
RAbs(a) == <<IAbs(a[1]), a[2]>>
RLt(a, b) == Bind2(RLtV, a, b)
RLe(a, b) == Bind2(RLeV, a, b)
RGt(a, b) == RLt(b, a)
RGe(a, b) == RLe(b, a)

\* the f64 values that are no rational: NaN and the infinities, written
\* 0/0, 1/0 and -1/0
NaN == <<0, 0>>
Infinity == <<1, 0>>
NegInfinity == <<-1, 0>>

\* a.partial_cmp(&b) == Some(Less), neither operand NaN
partial_lt(a, b) == a # b /\ (a = NegInfinity \/ b = Infinity \/ RLt(a, b))

\* Color: one channel of it; color(0, 0, 0) and color(1, 1, 1)
Black == RZero
White == ROne

\* ------------------------------------------------------------------------
\* Matrix (ray_tracer_lib/src/matrix.rs)
\* A Matrix is [size, values]: values is always the 4x4 array, of which the
\* top-left size x size block is the matrix and the rest is 0.0.
\* ------------------------------------------------------------------------
Idx4 == 0 .. 3

ZeroValues == [r \in Idx4 |-> [c \in Idx4 |-> RZero]]

\* Matrix::build / From<[[f64; n]; n]>: rows is a sequence of n sequences of
\* n numbers
MatrixFrom(rows) ==
    [size |-> Len(rows),
     values |-> [r \in Idx4 |-> [c \in Idx4 |->
                    IF r < Len(rows) /\ c < Len(rows)
                    THEN rows[r + 1][c + 1] ELSE RZero]]]

\* the same from integer literals
IntMatrix(rows) ==
    MatrixFrom([i \in 1 .. Len(rows) |-> [j \in 1 .. Len(rows) |-> R(rows[i][j])]])

at(m, y, x) == m.values[y][x]

submatrix(m, row, column) ==
    LET size == m.size - 1
    IN  [size |-> size,
         values |-> [y \in Idx4 |-> [x \in Idx4 |->
                        IF y < size /\ x < size
                        THEN m.values[IF y < row THEN y ELSE y + 1]
                                     [IF x < column THEN x ELSE x + 1]
                        ELSE RZero]]]

RECURSIVE determinant(_), cofactor(_, _, _), DetFold(_, _)

minor(m, r, c) == determinant(submatrix(m, r, c))

cofactor_unsigned(m, r, c) == minor(m, r, c)

cofactor(m, r, c) ==
    IF (r + c) % 2 = 0 THEN minor(m, r, c) ELSE RNeg(minor(m, r, c))

\* (0..size).fold(0.0, |result, num| result + at(0, num) * cofactor(0, num)),
\* the first n terms
DetFold(m, n) ==
    IF n = 0 THEN RZero
    ELSE RAdd(DetFold(m, n - 1), RMul(at(m, 0, n - 1), cofactor(m, 0, n - 1)))

determinant_by_fold(m) == DetFold(m, m.size)

determinant(m) ==
    IF m.size = 2
    THEN RSub(RMul(at(m, 0, 0), at(m, 1, 1)), RMul(at(m, 0, 1), at(m, 1, 0)))
    ELSE DetFold(m, m.size)

MatrixEpsilon == <<1, 10000>>

is_invertible_approx(m) == RGt(RAbs(determinant(m)), MatrixEpsilon)

is_invertible(m) == determinant(m) # RZero

\* Result<Matrix, ()>
Ok(v) == [ok |-> TRUE, val |-> v]
Err == [ok |-> FALSE, val |-> <<>>]

inverse_untransposed(m) ==
    IF ~is_invertible(m) THEN Err
    ELSE LET det == determinant(m)
         IN  Ok([size |-> m.size,
                 values |-> [r \in Idx4 |-> [c \in Idx4 |->
                                IF c < m.size /\ r < m.size
                                THEN RDiv(cofactor(m, r, c), det)
                                ELSE RZero]]])

\* values[c][r] = cofactor(r, c) / determinant: entry [y][x] of the result
\* is cofactor(x, y) / determinant
inverse(m) ==
    IF ~is_invertible(m) THEN Err
    ELSE LET det == determinant(m)
         IN  Ok([size |-> m.size,
                 values |-> [y \in Idx4 |-> [x \in Idx4 |->
                                IF y < m.size /\ x < m.size
                                THEN RDiv(cofactor(m, x, y), det)
                                ELSE RZero]]])

RECURSIVE MulFold(_, _, _, _, _)
\* (0..size).fold(0.0, |acc, i| acc + self.at(y, i) * rhs.at(i, x)), the
\* first n terms
MulFold(a, b, y, x, n) ==
    IF n = 0 THEN RZero
    ELSE RAdd(MulFold(a, b, y, x, n - 1), RMul(at(a, y, n - 1), at(b, n - 1, x)))

\* impl Mul for Matrix: starts from a copy of self.values
mul(a, b) ==
    [size |-> a.size,
     values |-> [y \in Idx4 |-> [x \in Idx4 |->
                    IF y < a.size /\ x < a.size
                    THEN MulFold(a, b, y, x, a.size)
                    ELSE a.values[y][x]]]]

identity ==
    IntMatrix(<< <<1, 0, 0, 0>>, <<0, 1, 0, 0>>, <<0, 0, 1, 0>>, <<0, 0, 0, 1>> >>)


\* ------------------------------------------------------------------------
\* Objects and materials (src/sphere.rs, src/plane.rs, src/cube.rs,
\* src/material.rs)
\* ------------------------------------------------------------------------
\* consts::EPSILON, the tolerance of every approximate comparison
EPSILON == <<1, 100000>>

\* Pattern: only the solid pattern carries a colour here; a colour is one
\* channel (every colour operation of the program acts channel by channel)
solid_pattern(c) == [template |-> "Solid", color |-> c]

Material_new(ambient, diffuse, specular, shininess, reflective, transparency, refractive_index, pattern) ==
    [ambient |-> ambient, diffuse |-> diffuse, specular |-> specular,
     shininess |-> shininess, reflective |-> reflective,
     transparency |-> transparency, refractive_index |-> refractive_index,
     pattern |-> pattern]

\* impl PartialEq for Material: reflective, transparency and
\* refractive_index take no part
Material_eq(a, b) ==
    /\ RLt(RAbs(RSub(a.ambient, b.ambient)), EPSILON)
    /\ RLt(RAbs(RSub(a.diffuse, b.diffuse)), EPSILON)
    /\ RLt(RAbs(RSub(a.specular, b.specular)), EPSILON)
    /\ RLt(RAbs(RSub(R(a.shininess), R(b.shininess))), EPSILON)
    /\ a.pattern = b.pattern

\* a shape: Sphere, Plane or Cube {transform, material, id}
Shape(kind, id, transform, material) ==
    [kind |-> kind, id |-> id, transform |-> transform, material |-> material]

\* equality of two &dyn Object: by the shapes' ids
Object_eq(a, b) == a.id = b.id

\* ------------------------------------------------------------------------
\* Intersections (src/intersection.rs)
\* An Intersection is [t, object]: object is the index of the shape in the
\* list of shapes `objs` it refers into (the program holds a reference).
\* ------------------------------------------------------------------------
intersection(t, object) == [t |-> t, object |-> object]

\* impl PartialEq for Intersection
Intersection_eq(objs, x, y) ==
    /\ RLt(RAbs(RSub(x.t, y.t)), EPSILON)
    /\ Material_eq(objs[x.object].material, objs[y.object].material)

RECURSIVE InsertByT(_, _)
\* x put into the t-sorted sequence s behind every element that does not
\* compare greater (slice::sort_by is stable)
InsertByT(s, x) ==
    IF s = <<>> THEN <<x>>
    ELSE IF partial_lt(x.t, s[Len(s)].t)
         THEN Append(InsertByT(SubSeq(s, 1, Len(s) - 1), x), s[Len(s)])
         ELSE Append(s, x)

RECURSIVE sort_by_t(_)
\* xs.sort_by(|a, b| a.t.partial_cmp(&b.t).unwrap())
sort_by_t(xs) ==
    IF xs = <<>> THEN <<>>
    ELSE InsertByT(sort_by_t(SubSeq(xs, 1, Len(xs) - 1)), xs[Len(xs)])

RECURSIVE find_nonnegative(_)
\* iter().find(|i| i.t >= 0.0)
find_nonnegative(xs) ==
    IF xs = <<>> THEN <<>>
    ELSE IF RGe(xs[1].t, RZero) THEN <<xs[1]>>
         ELSE find_nonnegative(Tail(xs))

hit_in_input_order(xs) == find_nonnegative(xs)

\* Hit::hit: an Option<&Intersection>, <<>> or <<the hit>>
hit(xs) == find_nonnegative(sort_by_t(xs))

contains_equal_material(objs, containers, object) ==
    \E i \in 1 .. Len(containers) :
        Material_eq(objs[containers[i]].material, objs[object].material)

contains(objs, containers, object) ==
    \E i \in 1 .. Len(containers) : Object_eq(objs[containers[i]], objs[object])

RECURSIVE retain_not(_, _, _)
retain_everything(objs, containers, object) == containers

\* containers.retain(|c| *c != x.object)
retain_not(objs, containers, object) ==
    IF containers = <<>> THEN <<>>
    ELSE IF Object_eq(objs[containers[1]], objs[object])
         THEN retain_not(objs, Tail(containers), object)
         ELSE <<containers[1]>> \o retain_not(objs, Tail(containers), object)

\* n1 / n2 as read off the containers stack
top_index(objs, containers) ==
    IF containers = <<>> THEN ROne
    ELSE objs[containers[Len(containers)]].material.refractive_index

walk_step_n1_after_update(objs, self, x, st) ==
    LET is_self == Intersection_eq(objs, x, self)
        updated == IF contains(objs, st.containers, x.object)
                   THEN retain_not(objs, st.containers, x.object)
                   ELSE Append(st.containers, x.object)
    IN  [containers |-> updated,
         n1 |-> IF is_self THEN top_index(objs, updated) ELSE st.n1,
         n2 |-> IF is_self THEN top_index(objs, updated) ELSE st.n2]

\* one round of the loop `for x in xs` of prepare, on the loop state
\* st = [containers, n1, n2]
walk_step(objs, self, x, st) ==
    LET is_self == Intersection_eq(objs, x, self)
        updated == IF contains(objs, st.containers, x.object)
                   THEN retain_not(objs, st.containers, x.object)
                   ELSE Append(st.containers, x.object)
    IN  [containers |-> updated,
         n1 |-> IF is_self THEN top_index(objs, st.containers) ELSE st.n1,
         n2 |-> IF is_self THEN top_index(objs, updated) ELSE st.n2]

RECURSIVE walk(_, _, _, _)
\* the loop of prepare over xs, from the loop state st
walk(objs, self, xs, st) ==
    IF xs = <<>> THEN st
    ELSE walk(objs, self, Tail(xs), walk_step(objs, self, xs[1], st))

\* Intersection::prepare.  The vectors of the ComputedIntersection are not
\* held; of the geometry the model keeps what the shading reads: n_dot_e is
\* normal_at(point) . eye_v as the shape returns it, before the flip.
prepare(objs, self, n_dot_e, xs) ==
    LET is_inside == RLt(n_dot_e, RZero)
        w == walk(objs, self, xs, [containers |-> <<>>, n1 |-> ROne, n2 |-> ROne])
    IN  [object |-> self.object,
         t |-> self.t,
         is_inside |-> is_inside,
         \* eye_v . normal_v with the normal as flipped
         cos_i |-> IF is_inside THEN RNeg(n_dot_e) ELSE n_dot_e,
         n1 |-> w.n1,
         n2 |-> w.n2]

\* ------------------------------------------------------------------------
\* Shapes: intersect (src/sphere.rs, src/plane.rs, src/cube.rs)
\* The model has no vectors.  What a ray's geometry contributes to a call is
\* given to it as `roots`: the t values the shape's local computation finds
\* for the ray (none, or the two roots of the sphere's quadratic; none, or
\* the plane's single t; none, or the cube's t_min and t_max).
\* `self` is the position of the shape in the list the result refers into.
\* ------------------------------------------------------------------------
Scale2 == IntMatrix(<< <<2, 0, 0, 0>>, <<0, 2, 0, 0>>, <<0, 0, 2, 0>>, <<0, 0, 0, 1>> >>)
TranslateDown == IntMatrix(<< <<1, 0, 0, 0>>, <<0, 1, 0, -1>>, <<0, 0, 1, 0>>, <<0, 0, 0, 1>> >>)
\* scale(1, 0, 1): flattens the shape, determinant 0
Flatten == IntMatrix(<< <<1, 0, 0, 0>>, <<0, 0, 0, 0>>, <<0, 0, 1, 0>>, <<0, 0, 0, 1>> >>)

\* transform.inverse(), with the inverses of the transforms the worlds below
\* use computed once
Transforms == {identity, Scale2, TranslateDown, Flatten}
InverseOf == [m \in Transforms |-> inverse(m)]
transform_inverse(m) == IF m \in Transforms THEN InverseOf[m] ELSE inverse(m)

Sphere_intersect_identity_fallback(shape, self, roots) ==
    IF roots = <<>> THEN Ok(<<>>)
    ELSE Ok(<<intersection(roots[1], self), intersection(roots[2], self)>>)

Sphere_intersect(shape, self, roots) ==
    LET matrix == transform_inverse(shape.transform)
    IN  IF matrix.ok
        THEN IF roots = <<>>      \* discriminant < 0.0
             THEN Ok(<<>>)
             ELSE Ok(<<intersection(roots[1], self), intersection(roots[2], self)>>)
        ELSE Err

Plane_intersect(shape, self, roots) ==
    LET matrix == transform_inverse(shape.transform)
    IN  IF ~matrix.ok THEN Err      \* the ? operator
        ELSE IF roots = <<>>        \* |ray2.direction.y| < EPSILON
             THEN Ok(<<>>)
             ELSE Ok(<<intersection(roots[1], self)>>)

Cube_intersect(shape, self, roots) ==
    LET matrix == transform_inverse(shape.transform)
    IN  IF ~matrix.ok THEN Err      \* the ? operator
        ELSE IF roots = <<>>        \* t_min > t_max
             THEN Ok(<<>>)
             ELSE Ok(<<intersection(roots[1], self), intersection(roots[2], self)>>)

\* dyn Object::intersect
Object_intersect(shape, self, roots) ==
    CASE shape.kind = "Sphere" -> Sphere_intersect(shape, self, roots)
      [] shape.kind = "Plane" -> Plane_intersect(shape, self, roots)
      [] shape.kind = "Cube" -> Cube_intersect(shape, self, roots)

\* ------------------------------------------------------------------------
\* World (src/src/world.rs) and Material::lighting (src/src/material.rs)
\* A World is [objects, light_sources]; a PointLight is [intensity].
\* A panic is the value Panic; a call that returns v is Value(v).
\* ------------------------------------------------------------------------
PointLight_new(intensity) == [intensity |-> intensity]
World_new(objects, light_sources) == [objects |-> objects, light_sources |-> light_sources]

Panic == [panic |-> TRUE, val |-> <<>>]
Value(v) == [panic |-> FALSE, val |-> v]

\* xs.append(&mut one.unwrap()) followed by the rest of the loop
unwrap_append(one, rest) ==
    IF ~one.ok THEN Panic     \* unwrap() of an Err
    ELSE IF rest.panic THEN Panic ELSE Value(one.val \o rest.val)

RECURSIVE append_all(_, _, _)
\* the loop of World::intersect from object i on: xs.append(&mut
\* obj.intersect(r).unwrap()); roots[i] is the ray's geometry for object i
append_all(objects, roots, i) ==
    IF i > Len(objects) THEN Value(<<>>)
    ELSE unwrap_append(Object_intersect(objects[i], i, roots[i]),
                       append_all(objects, roots, i + 1))

\* xs.sort_by(..) leaving the list as it is
unsorted(xs) == IF xs.panic THEN Panic ELSE Value(xs.val)

\* World::intersect: the sort compares every element of a list of two or
\* more, and partial_cmp(..).unwrap() panics on a NaN
sorted(xs) ==
    IF xs.panic THEN Panic
    ELSE IF Len(xs.val) >= 2 /\ \E i \in 1 .. Len(xs.val) : xs.val[i].t = NaN THEN Panic
    ELSE Value(sort_by_t(xs.val))

World_intersect(world, roots) == sorted(append_all(world.objects, roots, 1))

RECURSIVE RPow(_, _)
RPow(a, n) == IF n = 0 THEN ROne ELSE RMul(a, RPow(a, n - 1))

lighting_ignoring_shadow(material, light, l_dot_n, r_dot_e, in_shadow) ==
    LET start_color == material.pattern.color
        effective_color == RMul(start_color, light.intensity)
        ambient == RMul(effective_color, material.ambient)
        diffuse == IF RLt(l_dot_n, RZero) THEN Black
                   ELSE RMul(RMul(effective_color, material.diffuse), l_dot_n)
        specular == IF RLt(l_dot_n, RZero) THEN Black
                    ELSE IF RLe(r_dot_e, RZero) THEN Black
                    ELSE RMul(RMul(light.intensity, material.specular),
                              RPow(r_dot_e, material.shininess))
    IN  RAdd(RAdd(ambient, diffuse), specular)

\* Material::lighting; l_dot_n = light_v . normal_v and r_dot_e =
\* reflect_v . eye_v are the geometry of the point and the light
lighting(material, light, l_dot_n, r_dot_e, in_shadow) ==
    LET start_color == material.pattern.color
        effective_color == RMul(start_color, light.intensity)
        ambient == RMul(effective_color, material.ambient)
        diffuse == IF RLt(l_dot_n, RZero) THEN Black
                   ELSE RMul(RMul(effective_color, material.diffuse), l_dot_n)
        specular == IF RLt(l_dot_n, RZero) THEN Black
                    ELSE IF RLe(r_dot_e, RZero) THEN Black
                    ELSE RMul(RMul(light.intensity, material.specular),
                              RPow(r_dot_e, material.shininess))
    IN  IF in_shadow THEN ambient ELSE RAdd(RAdd(ambient, diffuse), specular)

hit_before_or_at(h, distance) == IF h = <<>> THEN FALSE ELSE RLe(h[1].t, distance)

\* World::is_shadowed; roots is the geometry of the ray from the point to
\* the light, distance the distance between the two
hit_before(h, distance) == IF h = <<>> THEN FALSE ELSE RLt(h[1].t, distance)

shadow_of(intersections, distance) ==
    IF intersections.panic THEN Panic
    ELSE Value(hit_before(hit(intersections.val), distance))

is_shadowed(world, roots, distance) == shadow_of(World_intersect(world, roots), distance)

\* the square root of a rational that is the square of a rational
ISqrt(n) == CHOOSE r \in 0 .. n : r * r = n
RSqrt(a) == <<ISqrt(a[1]), ISqrt(a[2])>>

\* sin2_t of refracted_color and of schlick: n.powf(2.0) * (1.0 - cos.powf(2.0))
sin2_t(n_ratio, cos) == RMul(RMul(n_ratio, n_ratio), RSub(ROne, RMul(cos, cos)))

schlick_without_total_reflection(comps) ==
    LET cos == comps.cos_i
        s == sin2_t(RDiv(comps.n1, comps.n2), cos)
        cos2 == IF RGt(comps.n1, comps.n2) /\ ~RGt(s, ROne)
                THEN RSqrt(RSub(ROne, s))
                ELSE cos
        r0 == LET q == RDiv(RSub(comps.n1, comps.n2), RAdd(comps.n1, comps.n2))
              IN  RMul(q, q)
    IN  RAdd(r0, RMul(RSub(ROne, r0), RPow(RSub(ROne, cos2), 5)))

\* ComputedIntersection::schlick
schlick(comps) ==
    LET cos == comps.cos_i
        total == /\ RGt(comps.n1, comps.n2)
                 /\ RGt(sin2_t(RDiv(comps.n1, comps.n2), cos), ROne)
        cos2 == IF RGt(comps.n1, comps.n2)
                THEN RSqrt(RSub(ROne, sin2_t(RDiv(comps.n1, comps.n2), cos)))
                ELSE cos
        r0 == LET q == RDiv(RSub(comps.n1, comps.n2), RAdd(comps.n1, comps.n2))
              IN  RMul(q, q)
    IN  IF total THEN ROne
        ELSE RAdd(r0, RMul(RSub(ROne, r0), RPow(RSub(ROne, cos2), 5)))

\* reflected_color: the condition of its first branch
reflected_is_black_unbounded(material, remaining) ==
    material.reflective = RZero

reflected_is_black(material, remaining) ==
    material.reflective = RZero \/ remaining <= 0

refracted_is_black_unbounded(material, comps, remaining) ==
    \/ material.transparency = RZero
    \/ RGt(sin2_t(RDiv(comps.n1, comps.n2), comps.cos_i), ROne)

\* refracted_color: the conditions under which it returns color(0, 0, 0)
\* without a ray: its first branch, or sin2_t > 1.0
refracted_is_black(material, comps, remaining) ==
    \/ material.transparency = RZero \/ remaining <= 0
    \/ RGt(sin2_t(RDiv(comps.n1, comps.n2), comps.cos_i), ROne)

\* the remaining of the color_at call that reflected_color and
\* refracted_color make
remaining_unchanged(remaining) == remaining

remaining_of_call(remaining) == remaining - 1

shade_hit_round_sum(material, comps, surface, reflected, refracted) ==
    RAdd(RAdd(surface, reflected), refracted)

\* shade_hit: what one round of the fold returns
shade_hit_round(material, comps, surface, reflected, refracted) ==
    IF RGt(material.reflective, RZero) /\ RGt(material.transparency, RZero)
    THEN LET reflectance == schlick(comps)
         IN  RAdd(RAdd(surface, RMul(reflected, reflectance)),
                  RMul(refracted, RSub(ROne, reflectance)))
    ELSE RAdd(RAdd(surface, reflected), refracted)

prepare_xs_nonnegative(intersections) ==
    SelectSeq(intersections, LAMBDA x : RGe(x.t, RZero))

\* color_at: the list it hands to prepare, &intersections
prepare_xs(intersections) == intersections

\* ------------------------------------------------------------------------
\* State
\* ------------------------------------------------------------------------
VARIABLES
    mat_a,      \* matrix algebra: the left operand
    mat_b,      \* matrix algebra: the right operand, and the matrix inverted
    mat_ab,     \* Some(mat_a * mat_b) once computed, else None
    mat_inv,    \* Some(mat_b.inverse()), a Result, once computed, else None
    ix_xs,      \* intersections: the list hit and prepare are applied to
    ix_op,      \* intersections: "none", then "hit" or "prepare"
    ix_self,    \* the position in ix_xs of the intersection prepare ran on
    ix_hit,     \* what ix_xs.hit() returned (an Option)
    ix_comps,   \* Some(ComputedIntersection) once prepare ran
    ca_world,   \* shading: the World, as its position in Worlds
    ca_scene,   \* shading: the geometry the rays meet (see Geometry)
    ca_remaining, \* shading: the remaining of the outermost color_at call
    ca_stack,   \* shading: the activations of color_at, outermost first
    ca_status,  \* shading: "running", "returned" or "panicked"
    ca_result,  \* shading: Some(the colour the outermost call returned)
    rn_camera,  \* render: the Camera [h_size, v_size, transform]
    rn_pc,      \* render: where Camera::render stands
    rn_x,       \* render: the loop variable x
    rn_y,       \* render: the loop variable y
    rn_image,   \* render: Some(the Canvas `image`)
    rn_calls,   \* render: the color_at calls made so far, [x, y, remaining]
    rn_writes,  \* render: the write_pixel calls made so far, [x, y, color]
    sh_shape,   \* intersect: Some(the shape)
    sh_roots,   \* intersect: what the ray's geometry gives the shape
    sh_result,  \* intersect: Some(what intersect returned)
    fn_call,    \* functions: the name of the function applied, "idle" before
    fn_args,    \* functions: Some(the arguments, a record)
    fn_result   \* functions: Some(what the function returned)

\* Option<T>: the empty sequence, or the one-element sequence of the value
None == <<>>
Some(v) == <<v>>

matVars == <<mat_a, mat_b, mat_ab, mat_inv>>
ixVars == <<ix_xs, ix_op, ix_self, ix_hit, ix_comps>>
caVars == <<ca_world, ca_scene, ca_remaining, ca_stack, ca_status, ca_result>>
rnVars == <<rn_camera, rn_pc, rn_x, rn_y, rn_image, rn_calls, rn_writes>>
shVars == <<sh_shape, sh_roots, sh_result>>
fnVars == <<fn_call, fn_args, fn_result>>
vars == <<matVars, ixVars, caVars, rnVars, shVars, fnVars>>

\* the variables of the parts a specification leaves alone
MatIdle == mat_a = None /\ mat_b = None /\ mat_ab = None /\ mat_inv = None
IxIdle == ix_xs = <<>> /\ ix_op = "idle" /\ ix_self = 0 /\ ix_hit = None /\ ix_comps = None
CaIdle ==
    /\ ca_world = 0 /\ ca_scene = None /\ ca_remaining = 0
    /\ ca_stack = <<>> /\ ca_status = "idle" /\ ca_result = None
RnIdle ==
    /\ rn_camera = None /\ rn_pc = "idle" /\ rn_x = 0 /\ rn_y = 0
    /\ rn_image = None /\ rn_calls = <<>> /\ rn_writes = <<>>
ShIdle == sh_shape = None /\ sh_roots = <<>> /\ sh_result = None
FnIdle == fn_call = "idle" /\ fn_args = None /\ fn_result = None

\* ------------------------------------------------------------------------
\* The shapes and materials the specifications draw from
\* ------------------------------------------------------------------------
\* reflective and transparent
MBoth == Material_new(<<1, 2>>, <<1, 2>>, <<1, 2>>, 2, <<1, 2>>, <<1, 2>>, R(3), solid_pattern(White))
\* transparent only; equal to MBoth under Material's ==
MGlass == Material_new(<<1, 2>>, <<1, 2>>, <<1, 2>>, 2, RZero, ROne, R(5), solid_pattern(White))
\* reflective only
MMirror == Material_new(<<1, 4>>, <<1, 2>>, <<1, 4>>, 2, ROne, RZero, ROne, solid_pattern(<<1, 2>>))
\* neither
MMatte == Material_new(<<1, 2>>, <<1, 2>>, <<1, 2>>, 3, RZero, RZero, ROne, solid_pattern(<<1, 2>>))


SBoth == Shape("Sphere", 1, identity, MBoth)
SGlass == Shape("Cube", 2, Scale2, MGlass)
SMirror == Shape("Plane", 3, TranslateDown, MMirror)
SMatte == Shape("Sphere", 4, Scale2, MMatte)
\* a cube whose transform cannot be inverted
SFlat == Shape("Cube", 5, Flatten, MGlass)

LightWhite == PointLight_new(White)
LightDim == PointLight_new(<<1, 2>>)

Worlds ==
    << World_new(<<SBoth, SGlass, SMirror>>, <<LightWhite>>),
       World_new(<<SBoth, SGlass, SMirror>>, <<LightWhite, LightDim>>),
       World_new(<<SBoth, SGlass, SMirror>>, <<>>),
       World_new(<<SBoth, SFlat, SMirror>>, <<LightWhite>>),
       World_new(<<>>, <<LightWhite>>) >>

\* ------------------------------------------------------------------------
\* Geometry.  A ray is [kind, px]: the primary ray of a pixel of class px
\* ("P"), or a ray cast by reflected_color ("R") or refracted_color ("T")
\* while that pixel is shaded.  What a ray meets is an entry:
\*   roots[i]     the t values object i's intersect finds for the ray
\*   n_dot_e      normal_at(point) . eye_v at the ray's hit
\*   l_dot_n[l]   light_v . normal_v at the hit, for light l
\*   r_dot_e[l]   reflect_v . eye_v at the hit, for light l
\*   shadow[l]    the roots, per object, of the ray from the hit to light l
\*   distance[l]  the distance from the hit to light l
\* A scene names the entry of each primary ray and the entries of the
\* reflected and of the refracted rays.
\* ------------------------------------------------------------------------
Entry(roots, n_dot_e, l_dot_n, r_dot_e, shadow, distance) ==
    [roots |-> roots, n_dot_e |-> n_dot_e, l_dot_n |-> l_dot_n,
     r_dot_e |-> r_dot_e, shadow |-> shadow, distance |-> distance]

NoRoots == << <<>>, <<>>, <<>> >>
\* an object between the point and the light
Blocked == << <<>>, <<R(1), R(2)>>, <<>> >>
\* an object beyond the light
Beyond == << <<>>, <<>>, <<R(20)>> >>

Entries ==
    << \* 1: the ray meets nothing
       Entry(NoRoots, ROne, <<ROne, ROne>>, <<ROne, ROne>>, <<NoRoots, NoRoots>>, <<R(10), R(10)>>),
       \* 2: the cube lies behind the ray
       Entry(<< <<>>, <<R(-3), R(-1)>>, <<>> >>, ROne, <<ROne, ROne>>, <<ROne, ROne>>,
             <<NoRoots, NoRoots>>, <<R(10), R(10)>>),
       \* 3: the ray enters the sphere, head on; lit by both lights
       Entry(<< <<R(1), R(3)>>, <<>>, <<>> >>, ROne, <<ROne, <<1, 2>>>>, <<ROne, RZero>>,
             <<NoRoots, Beyond>>, <<R(10), R(10)>>),
       \* 4: the ray leaves the sphere from inside, at an angle
       Entry(<< <<R(-1), R(2)>>, <<>>, <<R(5)>> >>, <<-3, 5>>, <<ROne, R(-1)>>, <<ROne, ROne>>,
             <<NoRoots, NoRoots>>, <<R(10), R(10)>>),
       \* 5: inside the sphere, the ray enters the cube; light 1 is blocked
       Entry(<< <<R(-1), R(4)>>, <<R(1), R(2)>>, <<>> >>, ROne, <<ROne, ROne>>, <<RZero, ROne>>,
             <<Blocked, NoRoots>>, <<R(10), R(10)>>),
       \* 6: the ray meets the mirror plane; light 1 is behind the plane
       Entry(<< <<>>, <<>>, <<R(2)>> >>, <<4, 5>>, <<R(-1), ROne>>, <<ROne, ROne>>,
             <<NoRoots, Blocked>>, <<R(10), R(10)>>) >>

PixelClasses == 1 .. 3

Scenes ==
    [first : { <<3, 6, 2>>, <<5, 4, 1>> },
     refl : DOMAIN Entries,
     refr : DOMAIN Entries]

EntryOf(scene, ray) ==
    CASE ray.kind = "P" -> scene.first[ray.px]
      [] ray.kind = "R" -> scene.refl
      [] ray.kind = "T" -> scene.refr

Geometry(scene, ray) == Entries[EntryOf(scene, ray)]

\* ray(comps.over_point, comps.reflect_v) and ray(comps.under_point, direction)
reflect_ray(r) == [kind |-> "R", px |-> r.px]
refract_ray(r) == [kind |-> "T", px |-> r.px]
primary_ray(px) == [kind |-> "P", px |-> px]

\* ------------------------------------------------------------------------
\* Matrix algebra on drawn matrices
\* ------------------------------------------------------------------------
\* rows the 4x4 inputs are assembled from: unit rows, and rows that make
\* determinants other than 0 and +-1
Rows4 ==
    { <<1, 0, 0, 0>>, <<0, 1, 0, 0>>, <<0, 0, 1, 0>>, <<0, 0, 0, 1>>,
      <<2, 0, -1, 3>>, <<0, -3, 1, 1>> }

Rows3 == { <<1, 0, 0>>, <<0, 2, 1>>, <<-1, 1, 3>>, <<0, 0, 1>> }

MaxEntry == 1

Inputs4 == { IntMatrix(<<r1, r2, r3, r4>>) : r1 \in Rows4, r2 \in Rows4, r3 \in Rows4, r4 \in Rows4 }
Inputs3 == { IntMatrix(<<r1, r2, r3>>) : r1 \in Rows3, r2 \in Rows3, r3 \in Rows3 }
Inputs2 ==
    { IntMatrix(<< <<a, b>>, <<c, d>> >>) :
        a \in -MaxEntry .. MaxEntry, b \in -MaxEntry .. MaxEntry,
        c \in -MaxEntry .. MaxEntry, d \in -MaxEntry .. MaxEntry }

\* a scaling by factors so small that the determinant is below every
\* epsilon of the program, yet not zero
TinyScale ==
    MatrixFrom(<< <<<<1, 100>>, RZero, RZero, RZero>>,
                  <<RZero, <<1, 1000>>, RZero, RZero>>,
                  <<RZero, RZero, ROne, RZero>>,
                  <<RZero, RZero, RZero, ROne>> >>)

LeftOperands ==
    { identity,
      IntMatrix(<< <<3, -9, 7, 3>>, <<3, -8, 2, -9>>, <<-4, 4, 4, 1>>, <<-6, 5, -1, 1>> >>) }

InitMatrix ==
    /\ mat_a \in LeftOperands
    /\ mat_b \in Inputs4 \cup Inputs3 \cup Inputs2 \cup {TinyScale}
    /\ mat_ab = None
    /\ mat_inv = None
    /\ IxIdle /\ CaIdle /\ RnIdle /\ ShIdle /\ FnIdle

MatMultiply ==
    /\ mat_ab = None
    /\ mat_ab' = Some(mul(mat_a, mat_b))
    /\ UNCHANGED <<mat_a, mat_b, mat_inv, ixVars, caVars, rnVars, shVars, fnVars>>

MatInverse ==
    /\ mat_inv = None
    /\ mat_inv' = Some(inverse(mat_b))
    /\ UNCHANGED <<mat_a, mat_b, mat_ab, ixVars, caVars, rnVars, shVars, fnVars>>

NextMatrix == MatMultiply \/ MatInverse

SpecMatrix == InitMatrix /\ [][NextMatrix]_vars

\* C8: Matrix::inverse returns Err if and only if the determinant of the
\* matrix is exactly 0; a matrix with a non-zero determinant, however small,
\* is inverted.
C8_InverseErrIffDeterminantZero ==
    mat_inv # None => (mat_inv[1].ok <=> determinant(mat_b) # RZero)

\* the inversion of a 4x4 matrix failed
C8_Witness ==
    /\ mat_inv # None
    /\ ~mat_inv[1].ok
    /\ mat_b.size = 4
    /\ at(mat_b, 0, 0) # RZero

\* a matrix whose determinant is 1/100000 was inverted
C8_WitnessTiny ==
    mat_inv # None /\ mat_inv[1].ok /\ RLt(RAbs(determinant(mat_b)), MatrixEpsilon)

\* C9: for an invertible 4x4 matrix B, B * B.inverse() is the identity, and
\* (A * B) * B.inverse() is A; entry [c][r] of the inverse is
\* cofactor(r, c) / determinant.
C9_InverseIsInverse ==
    (mat_inv # None /\ mat_b.size = 4 /\ mat_inv[1].ok) =>
        LET inv == mat_inv[1].val
        IN  /\ mul(mat_b, inv) = identity
            /\ mat_ab # None => mul(mat_ab[1], inv) = mat_a
            /\ \A r \in Idx4, c \in Idx4 :
                  inv.values[c][r] = RDiv(cofactor(mat_b, r, c), determinant(mat_b))

\* an inverse with fractional entries, of a matrix that is not symmetric,
\* applied to a product with a left operand other than the identity
C9_Witness ==
    /\ mat_inv # None /\ mat_b.size = 4 /\ mat_inv[1].ok
    /\ mat_ab # None /\ mat_a # identity
    /\ determinant(mat_b) \notin {ROne, R(-1)}
    /\ \E r \in Idx4, c \in Idx4 : at(mat_b, r, c) # at(mat_b, c, r)

\* ------------------------------------------------------------------------
\* hit and prepare on drawn intersection lists
\* ------------------------------------------------------------------------
MaxXs == 3

IxObjects == <<SBoth, SGlass, SMirror>>
IxTs == { R(-1), RZero, ROne }
IxValues == { intersection(t, o) : t \in IxTs, o \in 1 .. Len(IxObjects) }
IxLists == UNION { [1 .. n -> IxValues] : n \in 0 .. MaxXs }
\* normal . eye of the shape's normal at the point: facing the eye, or away
IxNDotE == { ROne, R(-1) }

InitIx ==
    /\ ix_xs \in IxLists
    /\ ix_op = "none"
    /\ ix_self = 0
    /\ ix_hit = None
    /\ ix_comps = None
    /\ MatIdle /\ CaIdle /\ RnIdle /\ ShIdle /\ FnIdle

IxHit ==
    /\ ix_op = "none"
    /\ ix_op' = "hit"
    /\ ix_hit' = hit(ix_xs)
    /\ UNCHANGED <<ix_xs, ix_self, ix_comps, matVars, caVars, rnVars, shVars, fnVars>>

IxPrepare ==
    /\ ix_op = "none"
    /\ \E k \in 1 .. Len(ix_xs), n_dot_e \in IxNDotE :
          /\ ix_self' = k
          /\ ix_comps' = Some(prepare(IxObjects, ix_xs[k], n_dot_e, ix_xs))
    /\ ix_op' = "prepare"
    /\ UNCHANGED <<ix_xs, ix_hit, matVars, caVars, rnVars, shVars, fnVars>>

NextIx == IxHit \/ IxPrepare

SpecIx == InitIx /\ [][NextIx]_vars

IxPositions == 1 .. Len(ix_xs)
IxNonNegative == { i \in IxPositions : RGe(ix_xs[i].t, RZero) }

\* C3: hit() returns an intersection of the list with t >= 0 (t = 0
\* included) whose t is the smallest of the non-negative ones, whatever the
\* order of the list, and returns None exactly when no t is >= 0.
C3_HitIsLowestNonNegative ==
    ix_op = "hit" =>
        IF IxNonNegative = {}
        THEN ix_hit = None
        ELSE /\ ix_hit # None
             /\ \E i \in IxNonNegative : ix_hit[1] = ix_xs[i]
             /\ \A j \in IxNonNegative : RLe(ix_hit[1].t, ix_xs[j].t)

\* a list out of order: a larger t first, a negative t, and the hit at t = 0
C3_Witness ==
    /\ ix_op = "hit" /\ ix_hit # None /\ Len(ix_xs) = 3
    /\ ix_xs[1].t = ROne /\ ix_xs[2].t = R(-1) /\ ix_xs[3].t = RZero
    /\ ix_hit[1].t = RZero

C4_Toggle(stack, o) ==
    LET Other(c) == c # o
    IN  IF \E i \in 1 .. Len(stack) : stack[i] = o
        THEN SelectSeq(stack, Other)
        ELSE Append(stack, o)

RECURSIVE C4_StackAfter(_)
\* the shapes entered and not left after the first n intersections of ix_xs
C4_StackAfter(n) ==
    IF n = 0 THEN <<>> ELSE C4_Toggle(C4_StackAfter(n - 1), ix_xs[n].object)

C4_Index(stack) ==
    IF stack = <<>> THEN ROne
    ELSE IxObjects[stack[Len(stack)]].material.refractive_index

C4_Ordered == \A i, j \in IxPositions : i < j => RLe(ix_xs[i].t, ix_xs[j].t)
C4_NoTwoEqual ==
    \A i, j \in IxPositions : i # j => ~Intersection_eq(IxObjects, ix_xs[i], ix_xs[j])

\* C4: on a t-ordered list with no two elements comparing equal, prepare on
\* the element at position k yields n1 = the refractive index of the last
\* shape on the stack after the elements before k (1 if the stack is empty)
\* and n2 = the same after the shape at k is toggled as well.
C4_RefractiveIndices ==
    (ix_op = "prepare" /\ C4_Ordered /\ C4_NoTwoEqual) =>
        /\ ix_comps[1].n1 = C4_Index(C4_StackAfter(ix_self - 1))
        /\ ix_comps[1].n2 = C4_Index(C4_StackAfter(ix_self))

\* the second of three intersections: inside one shape (n1 its index), and
\* entering another
C4_Witness ==
    /\ ix_op = "prepare" /\ C4_Ordered /\ C4_NoTwoEqual
    /\ Len(ix_xs) = 3 /\ ix_self = 2
    /\ ix_comps[1].n1 # ROne /\ ix_comps[1].n2 # ROne
    /\ ix_comps[1].n1 # ix_comps[1].n2

\* the containers of prepare's walk after the first n intersections of ix_xs
C20_StackAfter(n) ==
    walk(IxObjects, ix_xs[ix_self], SubSeq(ix_xs, 1, n),
         [containers |-> <<>>, n1 |-> ROne, n2 |-> ROne]).containers
C20_On(stack, o) == \E i \in 1 .. Len(stack) : stack[i] = o
\* another shape, with a material equal to the material of o, is on the stack
C20_EqualMaterialOn(stack, o) ==
    \E i \in 1 .. Len(stack) :
        /\ stack[i] # o
        /\ Material_eq(IxObjects[stack[i]].material, IxObjects[o].material)

\* C20: in prepare's walk a shape that is not on the containers stack is
\* pushed, also when another shape with an equal material is on it, and an
\* intersection removes from the stack its own shape only.
C20_StackByIdentity ==
    ix_op = "prepare" =>
        \A n \in IxPositions :
            LET before == C20_StackAfter(n - 1)
                after == C20_StackAfter(n)
                o == ix_xs[n].object
            IN  /\ ~C20_On(before, o) => after = Append(before, o)
                /\ C20_On(before, o) => ~C20_On(after, o)
                /\ \A c \in 1 .. Len(IxObjects) : c # o /\ C20_On(before, c) => C20_On(after, c)

\* the sphere is on the stack when the ray enters the cube, whose material
\* is equal to the sphere's: the cube is pushed, n1 = 3 and n2 = 5
C20_Witness ==
    /\ ix_op = "prepare" /\ Len(ix_xs) = 3 /\ ix_self = 2
    /\ ix_xs[1].object = 1 /\ ix_xs[2].object = 2 /\ ix_xs[3].object = 1
    /\ RLt(ix_xs[1].t, ix_xs[2].t) /\ RLt(ix_xs[2].t, ix_xs[3].t)
    /\ C20_EqualMaterialOn(C20_StackAfter(1), 2)
    /\ C20_StackAfter(2) = <<1, 2>> /\ C20_StackAfter(3) = <<2>>
    /\ ix_comps[1].n1 = R(3) /\ ix_comps[1].n2 = R(5)

\* ------------------------------------------------------------------------
\* Shading: World::color_at and what it calls, as a machine over a stack of
\* color_at activations.  A frame is one activation:
\*   ray, remaining   the arguments
\*   pc               where the activation stands
\*   xs               intersections, once World::intersect returned
\*   comps            Some(ComputedIntersection) once prepare ran
\*   light            the position in light_sources the fold of shade_hit is at
\*   color            the fold's accumulator; at pc "return" the value returned
\*   surface, reflected, refracted   the locals of the fold's closure
\* ------------------------------------------------------------------------
Frame(ray, remaining) ==
    [ray |-> ray, remaining |-> remaining, pc |-> "color_at", xs |-> <<>>,
     comps |-> None, light |-> 1, color |-> Black,
     surface |-> Black, reflected |-> Black, refracted |-> Black]

Top == ca_stack[Len(ca_stack)]
WithTop(f) == [ca_stack EXCEPT ![Len(ca_stack)] = f]
TheWorld == Worlds[ca_world]
TopGeometry == Geometry(ca_scene[1], Top.ray)
TopMaterial == TheWorld.objects[Top.comps[1].object].material
Running == ca_status = "running" /\ ca_stack # <<>>

\* dyn Object::normal_at, of which the model keeps whether it returns
Object_normal_at(shape) ==
    IF shape.kind = "Sphere"
    THEN IF transform_inverse(shape.transform).ok THEN Value(TRUE) ELSE Panic   \* unwrap()
    ELSE Value(TRUE)

\* color_at up to the match on hit_option: a panic, or the intersections,
\* the hit and, with a hit, the ComputedIntersection
color_at_match(world, geometry, intersections, hit_option) ==
    IF hit_option = None
    THEN Value([xs |-> intersections, comps |-> None])
    ELSE IF Object_normal_at(world.objects[hit_option[1].object]).panic
         THEN Panic
         ELSE Value([xs |-> intersections,
                     comps |-> Some(prepare(world.objects, hit_option[1],
                                            geometry.n_dot_e,
                                            prepare_xs(intersections)))])

color_at_hit(world, geometry, intersections) ==
    IF intersections.panic THEN Panic
    ELSE color_at_match(world, geometry, intersections.val, hit(intersections.val))

color_at_head(world, geometry) ==
    color_at_hit(world, geometry, World_intersect(world, geometry.roots))

\* color_at up to its match, and is_shadowed, in each world and for each
\* geometry a ray can have: functions of the world and the ray, computed once
color_at_heads ==
    [w \in DOMAIN Worlds |-> [e \in DOMAIN Entries |-> color_at_head(Worlds[w], Entries[e])]]

shadows ==
    [w \in DOMAIN Worlds |-> [e \in DOMAIN Entries |->
        [l \in 1 .. Len(Worlds[w].light_sources) |->
            is_shadowed(Worlds[w], Entries[e].shadow[l], Entries[e].distance[l])]]]

TopEntry == EntryOf(ca_scene[1], Top.ray)

Missed(head) ==
    /\ ~head.panic
    /\ head.val.comps = None
    /\ ca_stack' = WithTop([Top EXCEPT !.pc = "return", !.xs = head.val.xs,
                                       !.color = Black])

Shade(head) ==
    /\ ~head.panic
    /\ head.val.comps # None
    /\ ca_stack' = WithTop([Top EXCEPT !.pc = "shade_hit", !.xs = head.val.xs,
                                       !.comps = head.val.comps,
                                       !.light = 1, !.color = Black])

\* World::intersect (or normal_at) panics: the thread unwinds
ColorAtPanic ==
    /\ Running /\ Top.pc = "color_at"
    /\ color_at_heads[ca_world][TopEntry].panic
    /\ ca_status' = "panicked"
    /\ UNCHANGED <<matVars, ixVars, rnVars, shVars, fnVars, ca_world, ca_scene, ca_remaining, ca_stack, ca_result>>

\* None => color(0, 0, 0)
ColorAtMiss ==
    /\ Running /\ Top.pc = "color_at"
    /\ Missed(color_at_heads[ca_world][TopEntry])
    /\ UNCHANGED <<matVars, ixVars, rnVars, shVars, fnVars, ca_world, ca_scene, ca_remaining, ca_status, ca_result>>

\* Some(hit) => prepare, then shade_hit begins its fold
ColorAtHit ==
    /\ Running /\ Top.pc = "color_at"
    /\ Shade(color_at_heads[ca_world][TopEntry])
    /\ UNCHANGED <<matVars, ixVars, rnVars, shVars, fnVars, ca_world, ca_scene, ca_remaining, ca_status, ca_result>>

ShadeHitReturnEarly ==
    /\ Running /\ Top.pc = "shade_hit"
    /\ Top.light >= Len(TheWorld.light_sources)
    /\ ca_stack' = WithTop([Top EXCEPT !.pc = "return"])
    /\ UNCHANGED <<matVars, ixVars, rnVars, shVars, fnVars, ca_world, ca_scene, ca_remaining, ca_status, ca_result>>

\* the fold is through: shade_hit, and with it color_at, returns
ShadeHitReturn ==
    /\ Running /\ Top.pc = "shade_hit"
    /\ Top.light > Len(TheWorld.light_sources)
    /\ ca_stack' = WithTop([Top EXCEPT !.pc = "return"])
    /\ UNCHANGED <<matVars, ixVars, rnVars, shVars, fnVars, ca_world, ca_scene, ca_remaining, ca_status, ca_result>>

Surface(l, g, in_shadow) ==
    IF in_shadow.panic
    THEN ca_status' = "panicked" /\ UNCHANGED ca_stack
    ELSE /\ ca_stack' = WithTop([Top EXCEPT
                !.pc = "reflected_color",
                !.surface = RAdd(Top.color,
                                 lighting(TopMaterial, TheWorld.light_sources[l],
                                          g.l_dot_n[l], g.r_dot_e[l], in_shadow.val))])
         /\ UNCHANGED ca_status

\* one round of the fold, up to `let surface = ...`
ShadeHitSurface ==
    /\ Running /\ Top.pc = "shade_hit"
    /\ Top.light <= Len(TheWorld.light_sources)
    /\ Surface(Top.light, TopGeometry,
               shadows[ca_world][TopEntry][Top.light])
    /\ UNCHANGED <<matVars, ixVars, rnVars, shVars, fnVars, ca_world, ca_scene, ca_remaining, ca_result>>

\* reflected_color returns color(0, 0, 0)
ReflectedColorBlack ==
    /\ Running /\ Top.pc = "reflected_color"
    /\ reflected_is_black(TopMaterial, Top.remaining)
    /\ ca_stack' = WithTop([Top EXCEPT !.pc = "refracted_color", !.reflected = Black])
    /\ UNCHANGED <<matVars, ixVars, rnVars, shVars, fnVars, ca_world, ca_scene, ca_remaining, ca_status, ca_result>>

\* reflected_color calls self.color_at(reflect_ray, remaining - 1)
ReflectedColorCall ==
    /\ Running /\ Top.pc = "reflected_color"
    /\ ~reflected_is_black(TopMaterial, Top.remaining)
    /\ ca_stack' = Append(WithTop([Top EXCEPT !.pc = "reflected_color_call"]),
                          Frame(reflect_ray(Top.ray), remaining_of_call(Top.remaining)))
    /\ UNCHANGED <<matVars, ixVars, rnVars, shVars, fnVars, ca_world, ca_scene, ca_remaining, ca_status, ca_result>>

\* refracted_color returns color(0, 0, 0)
RefractedColorBlack ==
    /\ Running /\ Top.pc = "refracted_color"
    /\ refracted_is_black(TopMaterial, Top.comps[1], Top.remaining)
    /\ ca_stack' = WithTop([Top EXCEPT !.pc = "round", !.refracted = Black])
    /\ UNCHANGED <<matVars, ixVars, rnVars, shVars, fnVars, ca_world, ca_scene, ca_remaining, ca_status, ca_result>>

\* refracted_color calls self.color_at(refract_ray, remaining - 1)
RefractedColorCall ==
    /\ Running /\ Top.pc = "refracted_color"
    /\ ~refracted_is_black(TopMaterial, Top.comps[1], Top.remaining)
    /\ ca_stack' = Append(WithTop([Top EXCEPT !.pc = "refracted_color_call"]),
                          Frame(refract_ray(Top.ray), remaining_of_call(Top.remaining)))
    /\ UNCHANGED <<matVars, ixVars, rnVars, shVars, fnVars, ca_world, ca_scene, ca_remaining, ca_status, ca_result>>

\* the round's value becomes the fold's accumulator
ShadeHitRound ==
    /\ Running /\ Top.pc = "round"
    /\ ca_stack' = WithTop([Top EXCEPT
            !.pc = "shade_hit",
            !.light = Top.light + 1,
            !.color = shade_hit_round(TopMaterial, Top.comps[1], Top.surface,
                                      Top.reflected, Top.refracted)])
    /\ UNCHANGED <<matVars, ixVars, rnVars, shVars, fnVars, ca_world, ca_scene, ca_remaining, ca_status, ca_result>>

Caller == ca_stack[Len(ca_stack) - 1]
CallerMaterial == TheWorld.objects[Caller.comps[1].object].material
Popped(f) == [SubSeq(ca_stack, 1, Len(ca_stack) - 1) EXCEPT ![Len(ca_stack) - 1] = f]

\* color_at returns into reflected_color: `* comps.object.material().reflective`
ReturnToReflectedColor ==
    /\ Running /\ Top.pc = "return" /\ Len(ca_stack) > 1
    /\ Caller.pc = "reflected_color_call"
    /\ ca_stack' = Popped([Caller EXCEPT
            !.pc = "refracted_color",
            !.reflected = RMul(Top.color, CallerMaterial.reflective)])
    /\ UNCHANGED <<matVars, ixVars, rnVars, shVars, fnVars, ca_world, ca_scene, ca_remaining, ca_status, ca_result>>

\* color_at returns into refracted_color: `* comps.object.material().transparency`
ReturnToRefractedColor ==
    /\ Running /\ Top.pc = "return" /\ Len(ca_stack) > 1
    /\ Caller.pc = "refracted_color_call"
    /\ ca_stack' = Popped([Caller EXCEPT
            !.pc = "round",
            !.refracted = RMul(Top.color, CallerMaterial.transparency)])
    /\ UNCHANGED <<matVars, ixVars, rnVars, shVars, fnVars, ca_world, ca_scene, ca_remaining, ca_status, ca_result>>

\* the outermost color_at returns to its caller
ColorAtReturn ==
    /\ Running /\ Top.pc = "return" /\ Len(ca_stack) = 1
    /\ ca_result' = Some(Top.color)
    /\ ca_status' = "returned"
    /\ ca_stack' = <<>>
    /\ UNCHANGED <<matVars, ixVars, rnVars, shVars, fnVars, ca_world, ca_scene, ca_remaining>>

ColorAtStep ==
    \/ ColorAtPanic \/ ColorAtMiss \/ ColorAtHit
    \/ ShadeHitReturn \/ ShadeHitSurface \/ ShadeHitRound
    \/ ReflectedColorBlack \/ ReflectedColorCall
    \/ RefractedColorBlack \/ RefractedColorCall
    \/ ReturnToReflectedColor \/ ReturnToRefractedColor \/ ColorAtReturn

\* ------------------------------------------------------------------------
\* Specification Spec: one call of World::color_at
\* ------------------------------------------------------------------------
MaxRemaining == 3

Init ==
    /\ ca_world \in DOMAIN Worlds
    /\ ca_scene \in {Some(sc) : sc \in Scenes}
    /\ ca_remaining \in 0 .. MaxRemaining
    /\ \E px \in PixelClasses : ca_stack = <<Frame(primary_ray(px), ca_remaining)>>
    /\ ca_status = "running"
    /\ ca_result = None
    /\ MatIdle /\ IxIdle /\ RnIdle /\ ShIdle /\ FnIdle

Next == ColorAtStep

Spec == Init /\ [][Next]_vars

\* color_at runs on one thread, which is never suspended for good
FairSpec == Spec /\ WF_vars(Next)

Frames == 1 .. Len(ca_stack)
Lights == TheWorld.light_sources
Singular == \E i \in 1 .. Len(TheWorld.objects) : determinant(TheWorld.objects[i].transform) = RZero

\* the activations on the stack: each carries its caller's remaining - 1
C1_Nesting ==
    /\ Len(ca_stack) <= ca_remaining + 1
    /\ \A i \in Frames : ca_stack[i].remaining >= 0
    /\ ca_stack # <<>> => ca_stack[1].remaining = ca_remaining
    /\ \A i \in Frames : i > 1 => ca_stack[i].remaining = ca_stack[i - 1].remaining - 1

C1_Done ==
    \/ ca_status = "returned" /\ ca_result # None /\ ca_stack = <<>>
    \/ ca_status = "panicked" /\ Singular

\* C1: color_at terminates, and the color_at calls made by reflected_color
\* and refracted_color carry exactly remaining - 1, so that the activations
\* nest at most remaining + 1 deep, a surface both reflective and
\* transparent included.  (In a world with a shape that cannot be inverted
\* the call ends in the panic of World::intersect.)
C1_ColorAtTerminates == []C1_Nesting /\ <>C1_Done

\* both lights' rounds of a reflective and transparent surface recursed, to
\* the full depth
C1_Witness ==
    /\ ca_remaining = MaxRemaining
    /\ Len(ca_stack) = ca_remaining + 1
    /\ Len(Lights) = 2
    /\ \A i \in Frames : i < Len(ca_stack) =>
          /\ ca_stack[i].light = 2
          /\ ca_stack[i].pc = "refracted_color_call"
          /\ RGt(TheWorld.objects[ca_stack[i].comps[1].object].material.reflective, RZero)

\* ------------------------------------------------------------------------
\* C2: the steps of reflected_color and refracted_color
\* ------------------------------------------------------------------------
Callee == ca_stack'[Len(ca_stack')]
Same == ca_stack'[Len(ca_stack)]

C2_NoCall(field, pc) ==
    /\ Len(ca_stack') = Len(ca_stack)
    /\ Same[field] = Black
    /\ Same.pc = pc

C2_OneCall(kind, pc) ==
    /\ Top.remaining > 0
    /\ Len(ca_stack') = Len(ca_stack) + 1
    /\ Callee.pc = "color_at"
    /\ Callee.remaining = Top.remaining - 1
    /\ Callee.ray.kind = kind
    /\ Same.pc = pc

\* the callee's value comes back scaled, and the caller goes on: no second call
C2_Scaled ==
    /\ Running /\ Len(ca_stack) > 1 /\ Top.pc = "return"
       /\ Caller.pc = "reflected_color_call"
       => /\ Len(ca_stack') = Len(ca_stack) - 1
          /\ Callee.reflected = RMul(Top.color, CallerMaterial.reflective)
          /\ Callee.pc = "refracted_color"
    /\ Running /\ Len(ca_stack) > 1 /\ Top.pc = "return"
       /\ Caller.pc = "refracted_color_call"
       => /\ Len(ca_stack') = Len(ca_stack) - 1
          /\ Callee.refracted = RMul(Top.color, CallerMaterial.transparency)
          /\ Callee.pc = "round"

C2_ReflectedStep ==
    Running /\ Top.pc = "reflected_color" =>
        IF TopMaterial.reflective = RZero \/ Top.remaining = 0
        THEN C2_NoCall("reflected", "refracted_color")
        ELSE C2_OneCall("R", "reflected_color_call")

C2_TotalInternalReflection ==
    RGt(RMul(RMul(RDiv(Top.comps[1].n1, Top.comps[1].n2), RDiv(Top.comps[1].n1, Top.comps[1].n2)),
             RSub(ROne, RMul(Top.comps[1].cos_i, Top.comps[1].cos_i))), ROne)

C2_RefractedStepAsClaimed ==
    Running /\ Top.pc = "refracted_color" =>
        IF TopMaterial.transparency = RZero \/ Top.remaining = 0
        THEN C2_NoCall("refracted", "round")
        ELSE C2_OneCall("T", "refracted_color_call")

C2_RefractedStep ==
    Running /\ Top.pc = "refracted_color" =>
        IF TopMaterial.transparency = RZero \/ Top.remaining = 0 \/ C2_TotalInternalReflection
        THEN C2_NoCall("refracted", "round")
        ELSE C2_OneCall("T", "refracted_color_call")

\* C2 as claimed: reflected_color (refracted_color) returns black without a
\* color_at call when the coefficient is 0 or remaining is 0, and in every
\* other case calls color_at exactly once, with remaining - 1, and scales
\* the result by the coefficient.
C2_AsClaimed ==
    [][C2_ReflectedStep /\ C2_RefractedStepAsClaimed /\ C2_Scaled]_vars

\* C2, amended: as claimed for reflected_color; refracted_color returns
\* black without a color_at call also under total internal reflection
\* (sin2_t > 1), and calls color_at exactly once, with remaining - 1, in
\* every other case.  remaining - 1 is never evaluated at remaining = 0.
C2_BlackOrOneCall ==
    [][C2_ReflectedStep /\ C2_RefractedStep /\ C2_Scaled]_vars

\* a transparent surface, budget left, total internal reflection: refracted
\* is black and round follows, after the same round's reflected_color has
\* called color_at and scaled what it returned
C2_Witness ==
    /\ Running /\ Top.pc = "round"
    /\ Top.remaining > 0
    /\ RGt(TopMaterial.transparency, RZero)
    /\ RGt(sin2_t(RDiv(Top.comps[1].n1, Top.comps[1].n2), Top.comps[1].cos_i), ROne)
    /\ Top.refracted = Black
    /\ Top.reflected # Black

\* ------------------------------------------------------------------------
\* C5: what color_at finds and what it returns
\* ------------------------------------------------------------------------
C5_Roots(f) == Geometry(ca_scene[1], f.ray).roots
C5_NonNegative(f) == {j \in 1 .. Len(f.xs) : RGe(f.xs[j].t, RZero)}
C5_Sum(roots, n) == IF n = 0 THEN 0 ELSE Len(roots[1]) + (IF n > 1 THEN Len(roots[2]) + (IF n > 2 THEN Len(roots[3]) ELSE 0) ELSE 0)

\* f.xs is the complete list: every root of every object, negative ones
\* included, nothing else, ordered by t
C5_Complete(f) ==
    /\ Len(f.xs) = C5_Sum(C5_Roots(f), Len(TheWorld.objects))
    /\ \A i \in 1 .. Len(TheWorld.objects) : \A k \in 1 .. Len(C5_Roots(f)[i]) :
          \E j \in 1 .. Len(f.xs) : f.xs[j] = [t |-> C5_Roots(f)[i][k], object |-> i]
    /\ \A j, k \in 1 .. Len(f.xs) : j < k => RLe(f.xs[j].t, f.xs[k].t)

\* the hit is an element of the list, the one with the least t >= 0, and
\* comps is that element prepared against the whole list
C5_Prepared(f) ==
    /\ f.comps # None
    /\ \E j \in C5_NonNegative(f) :
          /\ \A k \in C5_NonNegative(f) : RLe(f.xs[j].t, f.xs[k].t)
          /\ f.comps[1] = prepare(TheWorld.objects, f.xs[j],
                                  Geometry(ca_scene[1], f.ray).n_dot_e, f.xs)
    /\ f.pc = "return" => f.light = Len(Lights) + 1

C5_Frame(f) ==
    f.pc # "color_at" =>
        /\ C5_Complete(f)
        /\ IF C5_NonNegative(f) = {}
           THEN f.pc = "return" /\ f.color = Black /\ f.comps = None
           ELSE C5_Prepared(f)

\* C5 as claimed: color_at returns black exactly when the ray has no
\* intersection with t >= 0.
C5_BlackExactlyWhenNoHit ==
    \A i \in Frames :
        ca_stack[i].pc = "return" =>
            (ca_stack[i].color = Black <=> C5_NonNegative(ca_stack[i]) = {})

\* C5, amended: color_at returns black whenever the ray has no intersection
\* with t >= 0 (with a hit it can return black as well: shade_hit sums over
\* the lights, and a world may have none); otherwise it returns shade_hit of
\* the hit, which is the element with the least t >= 0 of the complete
\* t-sorted list of all intersections, negative t included, prepared
\* against that list.
C5_ColorAt == \A i \in Frames : C5_Frame(ca_stack[i])

\* color_at returns a colour other than black for a hit that has an
\* intersection with negative t before it in the list
C5_Witness ==
    /\ Running /\ Top.pc = "return"
    /\ Top.comps # None
    /\ Top.color # Black
    /\ \E j \in 1 .. Len(Top.xs) : RLt(Top.xs[j].t, RZero)
    /\ Top.comps[1].n1 # ROne

\* a hit, no light: black
C5_WitnessNoLight ==
    /\ Running /\ Top.pc = "return"
    /\ Top.comps # None
    /\ Lights = <<>>
    /\ Top.color = Black

\* ------------------------------------------------------------------------
\* Specification SpecShape: one call of a shape's intersect
\* ------------------------------------------------------------------------
ShapeTransforms ==
    Transforms \cup
    { IntMatrix(<<r1, r2, r3, <<0, 0, 0, 1>>>>) : r1 \in Rows4, r2 \in Rows4, r3 \in Rows4 }

ShapeRoots(kind) ==
    IF kind = "Plane"
    THEN { <<>>, <<ROne>>, <<R(-2)>> }
    ELSE { <<>>, <<R(-1), ROne>>, <<ROne, R(2)>> }

InitShape ==
    /\ \E kind \in {"Sphere", "Plane", "Cube"}, transform \in ShapeTransforms :
          /\ sh_shape = Some(Shape(kind, 1, transform, MBoth))
          /\ sh_roots \in ShapeRoots(kind)
    /\ sh_result = None
    /\ MatIdle /\ IxIdle /\ CaIdle /\ RnIdle /\ FnIdle

ShapeIntersect ==
    /\ sh_shape # None /\ sh_result = None
    /\ sh_result' = Some(Object_intersect(sh_shape[1], 1, sh_roots))
    /\ UNCHANGED <<matVars, ixVars, caVars, rnVars, fnVars, sh_shape, sh_roots>>

NextShape == ShapeIntersect

SpecShape == InitShape /\ [][NextShape]_vars

\* C7: intersect of a Sphere, a Plane or a Cube returns Err when the
\* shape's transform is not invertible and Ok(list) otherwise, the list
\* being what the ray gives under the transform at hand.
C7_IntersectErrIffNotInvertible ==
    sh_result # None =>
        IF determinant(sh_shape[1].transform) = RZero
        THEN sh_result[1] = Err
        ELSE /\ sh_result[1].ok
             /\ Len(sh_result[1].val) = Len(sh_roots)
             /\ \A k \in 1 .. Len(sh_roots) :
                   sh_result[1].val[k] = [t |-> sh_roots[k], object |-> 1]

\* a sphere that cannot be inverted, met by a ray that would have found two
\* roots: Err
C7_Witness ==
    /\ sh_result # None
    /\ sh_shape[1].kind = "Sphere"
    /\ determinant(sh_shape[1].transform) = RZero
    /\ sh_roots # <<>>
    /\ ~sh_result[1].ok

C7_WitnessOk ==
    /\ sh_result # None
    /\ sh_shape[1].kind = "Cube"
    /\ sh_shape[1].transform \notin Transforms
    /\ sh_result[1].ok
    /\ Len(sh_result[1].val) = 2

\* ------------------------------------------------------------------------
\* Camera::render (src/src/camera.rs) and Canvas (src/src/canvas.rs)
\* ------------------------------------------------------------------------
\* the depth render hands to color_at
RenderDepth == 5

Camera_new(h_size, v_size, transform) ==
    [h_size |-> h_size, v_size |-> v_size, transform |-> transform]

\* Canvas::new; the cells are numbered from 0
canvas(width, height) ==
    [width |-> width, height |-> height,
     pixels |-> [i \in 0 .. width * height - 1 |-> Black]]

write_pixel_column_major(c, x, y, color) ==
    IF c.height * x + y \in DOMAIN c.pixels
    THEN Value([c EXCEPT !.pixels[c.height * x + y] = color])
    ELSE Panic

\* Canvas::write_pixel: self[width * y + x] = color; an index beyond the
\* slice panics
write_pixel(c, x, y, color) ==
    IF c.width * y + x \in DOMAIN c.pixels
    THEN Value([c EXCEPT !.pixels[c.width * y + x] = color])
    ELSE Panic

\* Canvas::get_pixel
get_pixel(c, x, y) == c.pixels[c.width * y + x]

\* which of the scene's primary rays the ray through pixel (x, y) is
PixelClass(x, y) == ((x + 2 * y) % 3) + 1

\* Camera::ray_for_pixel
ray_for_pixel(camera, x, y) ==
    IF transform_inverse(camera.transform).ok
    THEN Value(primary_ray(PixelClass(x, y)))
    ELSE Panic                     \* self.transform.inverse().unwrap()

TheCamera == rn_camera[1]

\* let mut image = canvas(self.h_size, self.v_size)
RenderBegin ==
    /\ rn_pc = "render"
    /\ rn_image' = Some(canvas(TheCamera.h_size, TheCamera.v_size))
    /\ rn_x' = 0 /\ rn_y' = 0
    /\ rn_pc' = "loop"
    /\ UNCHANGED <<matVars, ixVars, caVars, shVars, fnVars, rn_camera, rn_calls, rn_writes>>

\* for x in 0..self.h_size is through: the next y
RenderNextRow ==
    /\ rn_pc = "loop"
    /\ rn_y < TheCamera.v_size /\ rn_x >= TheCamera.h_size
    /\ rn_x' = 0 /\ rn_y' = rn_y + 1
    /\ UNCHANGED <<matVars, ixVars, caVars, shVars, fnVars, rn_camera, rn_pc, rn_image, rn_calls, rn_writes>>

\* ray_for_pixel panics
RenderRayPanic ==
    /\ rn_pc = "loop"
    /\ rn_y < TheCamera.v_size /\ rn_x < TheCamera.h_size
    /\ ray_for_pixel(TheCamera, rn_x, rn_y).panic
    /\ rn_pc' = "panicked"
    /\ UNCHANGED <<matVars, ixVars, caVars, shVars, fnVars, rn_camera, rn_x, rn_y, rn_image, rn_calls, rn_writes>>

\* let r = self.ray_for_pixel(x, y); world.color_at(r, 5) is called
RenderColorAt ==
    /\ rn_pc = "loop"
    /\ rn_y < TheCamera.v_size /\ rn_x < TheCamera.h_size
    /\ ~ray_for_pixel(TheCamera, rn_x, rn_y).panic
    /\ ca_stack' = <<Frame(ray_for_pixel(TheCamera, rn_x, rn_y).val, RenderDepth)>>
    /\ ca_remaining' = RenderDepth
    /\ ca_status' = "running"
    /\ ca_result' = None
    /\ rn_calls' = Append(rn_calls, [x |-> rn_x, y |-> rn_y, remaining |-> RenderDepth])
    /\ rn_pc' = "color_at"
    /\ UNCHANGED <<matVars, ixVars, shVars, fnVars, ca_world, ca_scene, rn_camera, rn_x, rn_y, rn_image, rn_writes>>

Written(image) ==
    IF image.panic
    THEN rn_pc' = "panicked" /\ UNCHANGED <<rn_image, rn_x>>
    ELSE rn_pc' = "loop" /\ rn_image' = Some(image.val) /\ rn_x' = rn_x + 1

\* color_at returned: image.write_pixel(x, y, color), and the next x
RenderWritePixel ==
    /\ rn_pc = "color_at" /\ ca_status = "returned"
    /\ Written(write_pixel(rn_image[1], rn_x, rn_y, ca_result[1]))
    /\ rn_writes' = Append(rn_writes, [x |-> rn_x, y |-> rn_y, color |-> ca_result[1]])
    /\ ca_status' = "idle"
    /\ ca_result' = None
    /\ UNCHANGED <<matVars, ixVars, shVars, fnVars, ca_world, ca_scene, ca_remaining, ca_stack,
                   rn_camera, rn_y, rn_calls>>

\* for y in 0..self.v_size is through: render returns image
RenderReturn ==
    /\ rn_pc = "loop"
    /\ rn_y >= TheCamera.v_size
    /\ rn_pc' = "returned"
    /\ UNCHANGED <<matVars, ixVars, caVars, shVars, fnVars, rn_camera, rn_x, rn_y, rn_image, rn_calls, rn_writes>>

\* ------------------------------------------------------------------------
\* Specification SpecRender: one call of Camera::render
\* ------------------------------------------------------------------------
MaxHSize == 2
MaxVSize == 2

RenderWorlds == {1, 4}
RenderScenes == {sc \in Scenes : sc.refl \in {1, 4, 6} /\ sc.refr \in {3, 5}}
RenderTransforms == {identity, TranslateDown, Flatten}

InitRender ==
    /\ \E h \in 0 .. MaxHSize, v \in 0 .. MaxVSize, t \in RenderTransforms :
          rn_camera = Some(Camera_new(h, v, t))
    /\ rn_pc = "render" /\ rn_x = 0 /\ rn_y = 0
    /\ rn_image = None /\ rn_calls = <<>> /\ rn_writes = <<>>
    /\ ca_world \in RenderWorlds
    /\ ca_scene \in {Some(sc) : sc \in RenderScenes}
    /\ ca_remaining = 0 /\ ca_stack = <<>> /\ ca_status = "idle" /\ ca_result = None
    /\ MatIdle /\ IxIdle /\ ShIdle /\ FnIdle

NextRender ==
    \/ RenderBegin \/ RenderNextRow \/ RenderRayPanic \/ RenderColorAt
    \/ RenderWritePixel \/ RenderReturn
    \/ ColorAtStep

SpecRender == InitRender /\ [][NextRender]_vars

\* ------------------------------------------------------------------------
\* C10: the pixels render visits, and the cells it writes
\* ------------------------------------------------------------------------
C10_H == TheCamera.h_size
C10_V == TheCamera.v_size
C10_Cell(w) == C10_H * w.y + w.x
\* the i-th pixel in row-major order, y outer and x inner
C10_RowMajor(i) == [x |-> (i - 1) % C10_H, y |-> (i - 1) \div C10_H]

\* C10: render visits every pixel (x, y), 0 <= x < h_size, 0 <= y < v_size,
\* exactly once and in row-major order, calls color_at on the pixel's ray
\* with depth 5, and writes what it returns to cell width * y + x; distinct
\* pixels go to distinct cells, and on return all h_size * v_size cells
\* have been written.
C10_RenderVisitsEveryPixelOnce ==
    /\ Len(rn_calls) <= C10_H * C10_V
    /\ Len(rn_writes) <= Len(rn_calls) /\ Len(rn_calls) <= Len(rn_writes) + 1
    /\ \A i \in 1 .. Len(rn_calls) :
          /\ rn_calls[i].x = C10_RowMajor(i).x /\ rn_calls[i].y = C10_RowMajor(i).y
          /\ rn_calls[i].remaining = 5
    /\ rn_pc = "color_at" /\ ca_stack # <<>> =>
          /\ ca_stack[1].remaining = 5
          /\ ca_stack[1].ray = primary_ray(PixelClass(rn_x, rn_y))
          /\ rn_calls[Len(rn_calls)].x = rn_x /\ rn_calls[Len(rn_calls)].y = rn_y
    /\ \A i \in 1 .. Len(rn_writes) :
          /\ rn_writes[i].x = rn_calls[i].x /\ rn_writes[i].y = rn_calls[i].y
          /\ C10_Cell(rn_writes[i]) \in 0 .. C10_H * C10_V - 1
          /\ rn_image[1].pixels[C10_Cell(rn_writes[i])] = rn_writes[i].color
    /\ \A i, j \in 1 .. Len(rn_writes) :
          i # j => C10_Cell(rn_writes[i]) # C10_Cell(rn_writes[j])
    /\ rn_image # None =>
          /\ DOMAIN rn_image[1].pixels = 0 .. C10_H * C10_V - 1
          /\ \A c \in DOMAIN rn_image[1].pixels :
                (\A i \in 1 .. Len(rn_writes) : C10_Cell(rn_writes[i]) # c)
                    => rn_image[1].pixels[c] = Black
    /\ rn_pc = "returned" =>
          /\ Len(rn_writes) = C10_H * C10_V
          /\ \A c \in 0 .. C10_H * C10_V - 1 :
                \E i \in 1 .. Len(rn_writes) : C10_Cell(rn_writes[i]) = c

\* render returned an image of more than one row and more than one column,
\* whose pixels are not all of one colour
C10_Witness ==
    /\ rn_pc = "returned"
    /\ C10_H >= 2 /\ C10_V >= 2
    /\ Len(rn_writes) = C10_H * C10_V
    /\ get_pixel(rn_image[1], 1, 0) # get_pixel(rn_image[1], 0, 1)
    /\ get_pixel(rn_image[1], 1, 0) # Black

\* ------------------------------------------------------------------------
\* C6: a matrix that cannot be inverted, met while rendering
\* ------------------------------------------------------------------------
\* C6 as claimed: a non-invertible transform met while rendering surfaces as
\* an explicit failure result, not as a panic: render either returns with
\* every pixel written or fails with an error.
C6_NoPanic == rn_pc # "panicked" /\ ca_status # "panicked"

\* ------------------------------------------------------------------------
\* C11: the rounds of shade_hit's fold
\* ------------------------------------------------------------------------
C11_Both == RGt(TopMaterial.reflective, RZero) /\ RGt(TopMaterial.transparency, RZero)

C11_SurfaceStep ==
    Running /\ Top.pc = "shade_hit" /\ Top.light <= Len(Lights) /\ ca_status' = "running" =>
        /\ Same.pc = "reflected_color"
        /\ Same.surface =
              RAdd(Top.color,
                   lighting(TopMaterial, Lights[Top.light], TopGeometry.l_dot_n[Top.light],
                            TopGeometry.r_dot_e[Top.light],
                            shadows[ca_world][TopEntry][Top.light].val))

C11_RoundStep ==
    Running /\ Top.pc = "round" =>
        /\ Same.pc = "shade_hit"
        /\ Same.light = Top.light + 1
        /\ Same.color =
              IF C11_Both
              THEN RAdd(Top.surface,
                        RAdd(RMul(Top.reflected, schlick(Top.comps[1])),
                             RMul(Top.refracted, RSub(ROne, schlick(Top.comps[1])))))
              ELSE RAdd(Top.surface, RAdd(Top.reflected, Top.refracted))

\* C11: shade_hit adds, for each light, lighting + reflected_color +
\* refracted_color; with reflective > 0 and transparency > 0 the two
\* secondary terms are combined as reflected * reflectance + refracted *
\* (1 - reflectance), reflectance = schlick(comps); otherwise they are summed.
C11_ShadeHitBlend == [][C11_SurfaceStep /\ C11_RoundStep]_vars

\* a round has blended a reflected and a refracted colour, neither black,
\* with a reflectance that is neither 0 nor 1
C11_Witness ==
    /\ Running /\ Top.pc = "shade_hit" /\ Top.light = 2
    /\ C11_Both
    /\ Top.reflected # Black /\ Top.refracted # Black
    /\ schlick(Top.comps[1]) \notin {RZero, ROne}
    /\ Top.color = RAdd(Top.surface,
                        RAdd(RMul(Top.reflected, schlick(Top.comps[1])),
                             RMul(Top.refracted, RSub(ROne, schlick(Top.comps[1])))))
    /\ Top.color # RAdd(Top.surface, RAdd(Top.reflected, Top.refracted))

\* ------------------------------------------------------------------------
\* C12: shade_hit at remaining = 0
\* ------------------------------------------------------------------------
C12_Material(f) == TheWorld.objects[f.comps[1].object].material
C12_Entry(f) == EntryOf(ca_scene[1], f.ray)

RECURSIVE C12_LocalLighting(_, _)
\* the sum of lighting over the first n lights, for the hit of activation f
C12_LocalLighting(f, n) ==
    IF n = 0 THEN Black
    ELSE RAdd(C12_LocalLighting(f, n - 1),
              lighting(C12_Material(f), Lights[n], Entries[C12_Entry(f)].l_dot_n[n],
                       Entries[C12_Entry(f)].r_dot_e[n],
                       shadows[ca_world][C12_Entry(f)][n].val))

C12_AtDepthZero(f) ==
    /\ f.pc = "return" /\ f.comps # None
    /\ f.remaining = 0
    /\ RGt(C12_Material(f).reflective, RZero)
    /\ RGt(C12_Material(f).transparency, RZero)

\* C12: for a surface both reflective and transparent, shade_hit with
\* remaining = 0 returns exactly the sum of the lighting terms over the
\* lights.
C12_PureLocalLighting ==
    \A i \in Frames :
        C12_AtDepthZero(ca_stack[i]) =>
            ca_stack[i].color = C12_LocalLighting(ca_stack[i], Len(Lights))

\* such a surface, lit by two lights, reached at the end of the budget by a
\* refracted ray
C12_Witness ==
    /\ Running /\ Len(ca_stack) > 1
    /\ C12_AtDepthZero(Top)
    /\ Top.ray.kind = "T"
    /\ Len(Lights) = 2
    /\ Top.color # Black
    /\ Top.color # C12_LocalLighting(Top, 1)

\* ------------------------------------------------------------------------
\* schlick and refracted_color, applied to the same ComputedIntersection
\* ------------------------------------------------------------------------
\* refracted_color: the color_at calls it makes, each by its remaining
refracted_color_calls(material, comps, remaining) ==
    IF refracted_is_black(material, comps, remaining)
    THEN <<>>
    ELSE <<remaining_of_call(remaining)>>

MaxOpticsRemaining == 2

IsSquare(n) == \E r \in 0 .. n : r * r = n
RIsSquare(a) == a[1] >= 0 /\ IsSquare(a[1]) /\ IsSquare(a[2])

\* the refractive indices and the cosines eye_v . normal_v the inputs take
OpticsIndices == {Rat(1, 1), Rat(3, 2), Rat(2, 1), Rat(3, 1), Rat(4, 1), Rat(5, 1)}
OpticsCos == {Rat(0, 1), Rat(3, 5), Rat(4, 5), Rat(1, 1)}
OpticsTransparency == {RZero, Rat(1, 2), ROne}

\* the inputs on which f64::sqrt(1.0 - sin2_t) is the root of a square
OpticsExact(n1, n2, cos) ==
    LET s == sin2_t(RDiv(n1, n2), cos)
    IN  RGt(s, ROne) \/ RIsSquare(RSub(ROne, s))

OpticsComps(n1, n2, cos) ==
    [object |-> 1, t |-> ROne, is_inside |-> FALSE, cos_i |-> cos, n1 |-> n1, n2 |-> n2]

InitOptics ==
    /\ \E n1 \in OpticsIndices, n2 \in OpticsIndices, cos \in OpticsCos,
          transparency \in OpticsTransparency, remaining \in 0 .. MaxOpticsRemaining :
          /\ OpticsExact(n1, n2, cos)
          /\ fn_args = Some([comps |-> OpticsComps(n1, n2, cos),
                             material |-> [MBoth EXCEPT !.transparency = transparency],
                             remaining |-> remaining])
    /\ fn_call = "idle" /\ fn_result = None
    /\ MatIdle /\ IxIdle /\ CaIdle /\ RnIdle /\ ShIdle

OpticsSchlick ==
    /\ fn_call = "idle"
    /\ fn_call' = "schlick"
    /\ fn_result' = Some(schlick(fn_args[1].comps))
    /\ UNCHANGED <<matVars, ixVars, caVars, rnVars, shVars, fn_args>>

OpticsRefractedColor ==
    /\ fn_call = "idle"
    /\ fn_call' = "refracted_color"
    /\ fn_result' = Some(refracted_color_calls(fn_args[1].material, fn_args[1].comps,
                                               fn_args[1].remaining))
    /\ UNCHANGED <<matVars, ixVars, caVars, rnVars, shVars, fn_args>>

NextOptics == OpticsSchlick \/ OpticsRefractedColor

SpecOptics == InitOptics /\ [][NextOptics]_vars

C13_Comps == fn_args[1].comps
C13_Sin2T == sin2_t(RDiv(C13_Comps.n1, C13_Comps.n2), C13_Comps.cos_i)
C13_Total == RGt(C13_Comps.n1, C13_Comps.n2) /\ RGt(C13_Sin2T, ROne)
C13_R0 ==
    LET q == RDiv(RSub(C13_Comps.n1, C13_Comps.n2), RAdd(C13_Comps.n1, C13_Comps.n2))
    IN  RMul(q, q)

\* C13: on positive refractive indices, when n1 > n2 and sin2_t > 1 schlick
\* returns exactly 1 and refracted_color makes no color_at call, whatever
\* remaining and the transparency are; when n1 <= n2 schlick is the formula
\* on the cosine it was given and refracted_color casts its ray whenever
\* the transparency is not 0 and remaining is above 0.
C13_TotalInternalReflection ==
    /\ fn_call = "schlick" /\ C13_Total => fn_result[1] = ROne
    /\ fn_call = "refracted_color" /\ C13_Total => fn_result[1] = <<>>
    /\ fn_call = "schlick" /\ RLe(C13_Comps.n1, C13_Comps.n2) =>
          /\ ~RGt(C13_Sin2T, ROne)
          /\ fn_result[1] = RAdd(C13_R0, RMul(RSub(ROne, C13_R0),
                                              RPow(RSub(ROne, C13_Comps.cos_i), 5)))
    /\ fn_call = "refracted_color" /\ RLe(C13_Comps.n1, C13_Comps.n2) =>
          fn_result[1] = IF fn_args[1].material.transparency = RZero \/ fn_args[1].remaining = 0
                         THEN <<>>
                         ELSE <<fn_args[1].remaining - 1>>

C13_Witness ==
    /\ fn_call = "refracted_color" /\ C13_Total
    /\ fn_args[1].material.transparency # RZero /\ fn_args[1].remaining = MaxOpticsRemaining
    /\ fn_result[1] = <<>>

C13_WitnessSchlick ==
    /\ fn_call = "schlick" /\ C13_Total /\ fn_result[1] = ROne

\* ------------------------------------------------------------------------
\* World::is_shadowed, applied to a world, the t values its objects find
\* on the ray from the point to the light, and the distance to the light
\* ------------------------------------------------------------------------
ShadowWorlds == {1, 5}
ShadowPairs == { <<>>, <<R(-3), R(-1)>>, <<R(-1), R(2)>>, <<R(2), R(4)>>,
                 <<R(5), R(7)>>, <<R(6), R(8)>> }
ShadowSingles == { <<>>, <<R(-2)>>, <<R(3)>>, <<R(5)>>, <<R(9)>> }
ShadowDistances == {R(3), R(5)}

\* the t values each object of the world finds: two for a sphere and for
\* a cube, one for a plane
ShadowRoots(world) ==
    IF Worlds[world].objects = <<>> THEN {<<>>}
    ELSE { <<s, c, p>> : s \in ShadowPairs, c \in ShadowPairs, p \in ShadowSingles }

InitShadow ==
    /\ \E world \in ShadowWorlds, distance \in ShadowDistances :
          \E roots \in ShadowRoots(world) :
              fn_args = Some([world |-> world, roots |-> roots, distance |-> distance])
    /\ fn_call = "idle" /\ fn_result = None
    /\ MatIdle /\ IxIdle /\ CaIdle /\ RnIdle /\ ShIdle

IsShadowed ==
    /\ fn_call = "idle"
    /\ fn_call' = "is_shadowed"
    /\ fn_result' = Some(is_shadowed(Worlds[fn_args[1].world], fn_args[1].roots,
                                     fn_args[1].distance))
    /\ UNCHANGED <<matVars, ixVars, caVars, rnVars, shVars, fn_args>>

NextShadow == IsShadowed

SpecShadow == InitShadow /\ [][NextShadow]_vars

\* the t values of the ray, over all objects
C14_Ts == { fn_args[1].roots[i][k] : <<i, k>> \in
            { <<i, k>> \in (1 .. 3) \X (1 .. 2) :
                i <= Len(fn_args[1].roots) /\ k <= Len(fn_args[1].roots[i]) } }
C14_NonNegative == { t \in C14_Ts : RGe(t, RZero) }
C14_Nearest == CHOOSE t \in C14_NonNegative : \A u \in C14_NonNegative : RLe(t, u)

\* C14: is_shadowed returns true exactly when the ray from the point to
\* the light has a non-negative t and the nearest of them is strictly less
\* than the distance to the light; an object between the two shadows the
\* point, objects beyond the light, at the light or behind the point do not.
C14_ShadowedIffHitBeforeLight ==
    fn_call = "is_shadowed" =>
        /\ ~fn_result[1].panic
        /\ fn_result[1].val =
              (C14_NonNegative # {} /\ RLt(C14_Nearest, fn_args[1].distance))
        /\ (\E t \in C14_Ts : RGe(t, RZero) /\ RLt(t, fn_args[1].distance))
              => fn_result[1].val
        /\ (\A t \in C14_Ts : RLt(t, RZero) \/ RGe(t, fn_args[1].distance))
              => ~fn_result[1].val

\* an object between the point and the light, one behind the point and one
\* beyond the light: shadowed
C14_Witness ==
    /\ fn_call = "is_shadowed" /\ fn_result[1].val
    /\ \E t \in C14_Ts : RLt(t, RZero)
    /\ \E t \in C14_Ts : RGt(t, fn_args[1].distance)

\* objects behind the point, at the light and beyond it only: not shadowed
C14_WitnessBeyond ==
    /\ fn_call = "is_shadowed" /\ ~fn_result[1].val
    /\ \E t \in C14_Ts : RLt(t, RZero)
    /\ \E t \in C14_Ts : t = fn_args[1].distance

\* ------------------------------------------------------------------------
\* Tuple (src/ray_tracer_lib/src/tuple.rs): [x, y, z, w], each an f64: a
\* rational, or NaN or an infinity where a division by 0.0 produced one
\* ------------------------------------------------------------------------

\* f64 division of finite operands
F64Div(a, b) ==
    IF b # RZero THEN RDiv(a, b)
    ELSE IF a = RZero THEN NaN
    ELSE IF RGt(a, RZero) THEN Infinity ELSE NegInfinity

tuple(x, y, z, w) == [x |-> x, y |-> y, z |-> z, w |-> w]
point(x, y, z) == tuple(x, y, z, ROne)
vector(x, y, z) == tuple(x, y, z, RZero)
is_point(a) == a.w = ROne
is_vector(a) == a.w = RZero

Tuple_magnitude2(a) ==
    RAdd(RAdd(RMul(a.x, a.x), RMul(a.y, a.y)), RAdd(RMul(a.z, a.z), RMul(a.w, a.w)))
Tuple_magnitude(a) == RSqrt(Tuple_magnitude2(a))

Tuple_normalize_of(a, magnitude) ==
    tuple(F64Div(a.x, magnitude), F64Div(a.y, magnitude),
          F64Div(a.z, magnitude), F64Div(a.w, magnitude))
Tuple_normalize(a) == Tuple_normalize_of(a, Tuple_magnitude(a))

Tuple_cross(a, other) ==
    tuple(RSub(RMul(a.y, other.z), RMul(a.z, other.y)),
          RSub(RMul(a.z, other.x), RMul(a.x, other.z)),
          RSub(RMul(a.x, other.y), RMul(a.y, other.x)),
          RZero)

Tuple_add(a, other) ==
    tuple(RAdd(a.x, other.x), RAdd(a.y, other.y), RAdd(a.z, other.z), RAdd(a.w, other.w))

Tuple_sub(a, other) ==
    tuple(RSub(a.x, other.x), RSub(a.y, other.y), RSub(a.z, other.z), RSub(a.w, other.w))

Tuple_neg(a) == tuple(RNeg(a.x), RNeg(a.y), RNeg(a.z), RNeg(a.w))

Tuple_mul(a, rhs) == tuple(RMul(a.x, rhs), RMul(a.y, rhs), RMul(a.z, rhs), RMul(a.w, rhs))

\* the coordinates, the points and vectors, and the scalars of the inputs
TupleCoords == {R(-3), RZero, R(4)}
TupleInputs ==
    { point(x, y, z) : x \in TupleCoords, y \in TupleCoords, z \in TupleCoords } \cup
    { vector(x, y, z) : x \in TupleCoords, y \in TupleCoords, z \in TupleCoords }
TupleScalars == {R(-2), RZero, Rat(1, 2)}

InitTuple ==
    /\ \E a \in TupleInputs, b \in TupleInputs, rhs \in TupleScalars :
          fn_args = Some([a |-> a, b |-> b, rhs |-> rhs])
    /\ fn_call = "idle" /\ fn_result = None
    /\ MatIdle /\ IxIdle /\ CaIdle /\ RnIdle /\ ShIdle

TupleApply(name, result) ==
    /\ fn_call = "idle"
    /\ fn_call' = name
    /\ fn_result' = Some(result)
    /\ UNCHANGED <<matVars, ixVars, caVars, rnVars, shVars, fn_args>>

TupleAdd == TupleApply("add", Tuple_add(fn_args[1].a, fn_args[1].b))
TupleSub == TupleApply("sub", Tuple_sub(fn_args[1].a, fn_args[1].b))
TupleNeg == TupleApply("neg", Tuple_neg(fn_args[1].a))
TupleMul == TupleApply("mul", Tuple_mul(fn_args[1].a, fn_args[1].rhs))
TupleCross == TupleApply("cross", Tuple_cross(fn_args[1].a, fn_args[1].b))
\* on the inputs whose magnitude is the root of a square
TupleNormalize ==
    /\ fn_args # None /\ RIsSquare(Tuple_magnitude2(fn_args[1].a))
    /\ TupleApply("normalize", Tuple_normalize(fn_args[1].a))

NextTuple == TupleAdd \/ TupleSub \/ TupleNeg \/ TupleMul \/ TupleCross \/ TupleNormalize

SpecTuple == InitTuple /\ [][NextTuple]_vars

C15_A == fn_args[1].a
C15_B == fn_args[1].b
C15_W == fn_result[1].w

\* the w tag of every operation of the claim but normalize
C15_Arithmetic ==
    /\ fn_call = "sub" /\ is_point(C15_A) /\ is_vector(C15_B) => C15_W = ROne
    /\ fn_call = "sub" /\ is_point(C15_A) /\ is_point(C15_B) => C15_W = RZero
    /\ fn_call = "sub" /\ is_vector(C15_A) /\ is_vector(C15_B) => C15_W = RZero
    /\ fn_call = "add" /\ is_vector(C15_A) /\ is_vector(C15_B) => C15_W = RZero
    /\ fn_call = "add" /\ is_point(C15_A) /\ is_vector(C15_B) => C15_W = ROne
    /\ fn_call = "neg" /\ is_vector(C15_A) => C15_W = RZero
    /\ fn_call = "mul" /\ is_vector(C15_A) => C15_W = RZero
    /\ fn_call = "cross" /\ is_vector(C15_A) /\ is_vector(C15_B) => C15_W = RZero

C15_ZeroVector == vector(RZero, RZero, RZero)

\* C15: point - vector is a point (w = 1), point - point a vector (w = 0),
\* vector - vector and vector + vector are vectors, point + vector is a
\* point, and negating, scaling, normalizing or crossing vectors yields a
\* vector (w = 0).
C15_WTag ==
    /\ C15_Arithmetic
    /\ fn_call = "normalize" /\ is_vector(C15_A) => C15_W = RZero

\* what normalize does: w = 0 on every vector but vector(0, 0, 0), whose
\* normalize has NaN in all four fields
C15_NormalizeW ==
    fn_call = "normalize" /\ is_vector(C15_A) =>
        IF C15_A = C15_ZeroVector
        THEN fn_result[1] = tuple(NaN, NaN, NaN, NaN)
        ELSE C15_W = RZero

C15_Witness ==
    /\ fn_call = "sub" /\ is_point(C15_A) /\ is_point(C15_B)
    /\ C15_A # C15_B /\ C15_W = RZero

C15_WitnessNormalize ==
    /\ fn_call = "normalize" /\ is_vector(C15_A)
    /\ fn_result[1] = vector(Rat(-3, 5), RZero, Rat(4, 5))

C15_WitnessZero ==
    /\ fn_call = "normalize" /\ C15_A = C15_ZeroVector /\ C15_W = NaN

\* ------------------------------------------------------------------------
\* Material::lighting, applied to a material, a light, the two dot
\* products of the point's geometry and in_shadow
\* ------------------------------------------------------------------------
LightingCoefficients == {Rat(1, 4), Rat(1, 2)}
LightingShininess == {1, 2}
LightingColors == {White, Rat(1, 2)}
LightingDots == {Rat(-1, 2), RZero, Rat(1, 2), ROne}

InitLighting ==
    /\ \E ambient \in LightingCoefficients, diffuse \in LightingCoefficients,
          specular \in LightingCoefficients, shininess \in LightingShininess,
          c \in LightingColors, intensity \in LightingColors,
          l_dot_n \in LightingDots, r_dot_e \in LightingDots, in_shadow \in BOOLEAN :
          fn_args = Some([material |-> Material_new(ambient, diffuse, specular, shininess,
                                                    RZero, RZero, ROne, solid_pattern(c)),
                          light |-> PointLight_new(intensity),
                          l_dot_n |-> l_dot_n, r_dot_e |-> r_dot_e,
                          in_shadow |-> in_shadow])
    /\ fn_call = "idle" /\ fn_result = None
    /\ MatIdle /\ IxIdle /\ CaIdle /\ RnIdle /\ ShIdle

Lighting ==
    /\ fn_call = "idle"
    /\ fn_call' = "lighting"
    /\ fn_result' = Some(lighting(fn_args[1].material, fn_args[1].light, fn_args[1].l_dot_n,
                                  fn_args[1].r_dot_e, fn_args[1].in_shadow))
    /\ UNCHANGED <<matVars, ixVars, caVars, rnVars, shVars, fn_args>>

NextLighting == Lighting

SpecLighting == InitLighting /\ [][NextLighting]_vars

C16_M == fn_args[1].material
C16_Effective == RMul(C16_M.pattern.color, fn_args[1].light.intensity)
C16_Ambient == RMul(C16_Effective, C16_M.ambient)
C16_Diffuse == RMul(RMul(C16_Effective, C16_M.diffuse), fn_args[1].l_dot_n)
C16_Specular ==
    RMul(RMul(fn_args[1].light.intensity, C16_M.specular),
         RPow(fn_args[1].r_dot_e, C16_M.shininess))

\* C16: lighting for one light returns the ambient term (pattern colour *
\* light intensity * ambient) plus terms that are never negative; exactly
\* the ambient term when in_shadow; ambient alone when light_v . normal <
\* 0 (diffuse and specular zero); ambient + diffuse when reflect . eye <=
\* 0 (specular zero); ambient + diffuse + specular otherwise.
C16_Lighting ==
    fn_call = "lighting" =>
        /\ RGe(fn_result[1], C16_Ambient)
        /\ fn_result[1] =
              IF fn_args[1].in_shadow THEN C16_Ambient
              ELSE IF RLt(fn_args[1].l_dot_n, RZero) THEN C16_Ambient
              ELSE IF RLe(fn_args[1].r_dot_e, RZero) THEN RAdd(C16_Ambient, C16_Diffuse)
              ELSE RAdd(RAdd(C16_Ambient, C16_Diffuse), C16_Specular)

\* in shadow, with the light in front of the surface and a highlight
C16_Witness ==
    /\ fn_call = "lighting" /\ fn_args[1].in_shadow
    /\ RGt(fn_args[1].l_dot_n, RZero) /\ RGt(fn_args[1].r_dot_e, RZero)
    /\ fn_result[1] = C16_Ambient

\* lit, with all three terms
C16_WitnessLit ==
    /\ fn_call = "lighting" /\ ~fn_args[1].in_shadow
    /\ RGt(C16_Diffuse, RZero) /\ RGt(fn_args[1].r_dot_e, RZero)
    /\ RLt(fn_args[1].r_dot_e, ROne) /\ C16_M.shininess = 2
    /\ fn_result[1] = RAdd(RAdd(C16_Ambient, C16_Diffuse), C16_Specular)

\* ------------------------------------------------------------------------
\* Cube::intersect and Plane::intersect on the local ray ray2 =
\* ray.transform(inverse): [origin, direction], two Tuples
\* ------------------------------------------------------------------------
\* f64 comparisons: false when an operand is NaN
F64Gt(a, b) ==
    IF a = NaN \/ b = NaN THEN FALSE
    ELSE IF a[2] = 0 /\ b[2] = 0 THEN a[1] > b[1]
    ELSE a[1] * b[2] > b[1] * a[2]
F64Lt(a, b) == F64Gt(b, a)
F64Le(a, b) == a # NaN /\ b # NaN /\ ~F64Gt(a, b)

\* a * std::f64::INFINITY, a finite
F64MulInfinity(a) ==
    IF a = RZero THEN NaN
    ELSE IF RGt(a, RZero) THEN Infinity ELSE NegInfinity

\* Cube::check_axis: the pair it returns
check_axis_ordered(t_min, t_max) ==
    IF F64Gt(t_min, t_max) THEN <<t_max, t_min>> ELSE <<t_min, t_max>>

check_axis(origin, direction) ==
    LET t_min_numerator == RSub(R(-1), origin)
        t_max_numerator == RSub(ROne, origin)
    IN  IF RGe(RAbs(direction), EPSILON)
        THEN check_axis_ordered(RDiv(t_min_numerator, direction),
                                RDiv(t_max_numerator, direction))
        ELSE check_axis_ordered(F64MulInfinity(t_min_numerator),
                                F64MulInfinity(t_max_numerator))

\* the macros max! and min! of cube.rs on three operands
max2(x, y) == IF F64Gt(x, y) THEN x ELSE y
max3(x, y, z) == max2(x, max2(y, z))
min2(x, y) == IF F64Lt(x, y) THEN x ELSE y
min3(x, y, z) == min2(x, min2(y, z))

\* Cube::intersect after the transform: the t values it returns
Cube_roots_of(t_min, t_max) == IF F64Gt(t_min, t_max) THEN <<>> ELSE <<t_min, t_max>>

Cube_roots_axes(x, y, z) ==
    Cube_roots_of(max3(x[1], y[1], z[1]), min3(x[2], y[2], z[2]))

Cube_roots(ray2) ==
    Cube_roots_axes(check_axis(ray2.origin.x, ray2.direction.x),
                    check_axis(ray2.origin.y, ray2.direction.y),
                    check_axis(ray2.origin.z, ray2.direction.z))

Plane_roots_unless_zero(ray2) ==
    IF ray2.direction.y = RZero THEN <<>>
    ELSE <<RDiv(RNeg(ray2.origin.y), ray2.direction.y)>>

\* Plane::intersect after the transform: the t values it returns
Plane_roots(ray2) ==
    IF RLt(RAbs(ray2.direction.y), EPSILON) THEN <<>>
    ELSE <<RDiv(RNeg(ray2.origin.y), ray2.direction.y)>>

ray(origin, direction) == [origin |-> origin, direction |-> direction]

\* the coordinates of the local ray: on a face, inside, outside; a
\* direction component of 0 and one below EPSILON
LocalOrigins == {R(-2), R(-1), RZero, Rat(1, 2), ROne, R(5)}
LocalDirections == {R(-1), RZero, Rat(1, 200000), ROne}

LocalCube == Shape("Cube", 1, identity, MMatte)
LocalPlane == Shape("Plane", 1, identity, MMatte)

InitLocal ==
    /\ \E ox \in LocalOrigins, oy \in LocalOrigins, oz \in LocalOrigins,
          dx \in LocalDirections, dy \in LocalDirections, dz \in LocalDirections :
          fn_args = Some([ray2 |-> ray(point(ox, oy, oz), vector(dx, dy, dz))])
    /\ fn_call = "idle" /\ fn_result = None
    /\ MatIdle /\ IxIdle /\ CaIdle /\ RnIdle /\ ShIdle

CubeIntersect ==
    /\ fn_call = "idle"
    /\ fn_call' = "Cube::intersect"
    /\ fn_result' = Some(Cube_intersect(LocalCube, 1, Cube_roots(fn_args[1].ray2)))
    /\ UNCHANGED <<matVars, ixVars, caVars, rnVars, shVars, fn_args>>

PlaneIntersect ==
    /\ fn_call = "idle"
    /\ fn_call' = "Plane::intersect"
    /\ fn_result' = Some(Plane_intersect(LocalPlane, 1, Plane_roots(fn_args[1].ray2)))
    /\ UNCHANGED <<matVars, ixVars, caVars, rnVars, shVars, fn_args>>

NextLocal == CubeIntersect \/ PlaneIntersect

SpecLocal == InitLocal /\ [][NextLocal]_vars

C17_Ray == fn_args[1].ray2
C17_X == check_axis(C17_Ray.origin.x, C17_Ray.direction.x)
C17_Y == check_axis(C17_Ray.origin.y, C17_Ray.direction.y)
C17_Z == check_axis(C17_Ray.origin.z, C17_Ray.direction.z)
C17_Lows == {C17_X[1], C17_Y[1], C17_Z[1]}
C17_Highs == {C17_X[2], C17_Y[2], C17_Z[2]}
\* t is the maximum (the minimum) of the set
C17_IsMax(t, S) == t \in S /\ \A u \in S : F64Le(u, t)
C17_IsMin(t, S) == t \in S /\ \A u \in S : F64Le(t, u)
\* an axis whose direction is below EPSILON with the origin on a face
C17_OnFace(origin, direction) ==
    RLt(RAbs(direction), EPSILON) /\ RAbs(origin) = ROne
C17_AnyOnFace ==
    \/ C17_OnFace(C17_Ray.origin.x, C17_Ray.direction.x)
    \/ C17_OnFace(C17_Ray.origin.y, C17_Ray.direction.y)
    \/ C17_OnFace(C17_Ray.origin.z, C17_Ray.direction.z)

C17_Slab ==
    /\ F64Le(C17_X[1], C17_X[2]) /\ F64Le(C17_Y[1], C17_Y[2]) /\ F64Le(C17_Z[1], C17_Z[2])
    /\ \E t_min \in C17_Lows, t_max \in C17_Highs :
          /\ C17_IsMax(t_min, C17_Lows) /\ C17_IsMin(t_max, C17_Highs)
          /\ fn_result[1] = IF F64Gt(t_min, t_max) THEN Ok(<<>>)
                            ELSE Ok(<<intersection(t_min, 1), intersection(t_max, 1)>>)

\* C17: check_axis returns each axis pair ordered (low <= high); with
\* t_min the maximum of the three lows and t_max the minimum of the three
\* highs, Cube::intersect returns no intersections when t_min > t_max and
\* otherwise exactly the two intersections (t_min, t_max), in that order,
\* both of the cube.
C17_SlabMethod == fn_call = "Cube::intersect" => C17_Slab

\* the slab method on every ray that has no axis with a direction below
\* EPSILON and the origin on a face of that axis
C17_SlabMethodOffFaces == fn_call = "Cube::intersect" /\ ~C17_AnyOnFace => C17_Slab

\* origin (5, 1/2, 0), direction (-1, 0, 0): t = 4 and t = 6
C17_Witness ==
    /\ fn_call = "Cube::intersect"
    /\ C17_Ray = ray(point(R(5), Rat(1, 2), RZero), vector(R(-1), RZero, RZero))
    /\ fn_result[1] = Ok(<<intersection(R(4), 1), intersection(R(6), 1)>>)

\* an origin on the face z = 1 with direction.z = 0: the pair of the z
\* axis is (-inf, NaN), min! returns the NaN and the second intersection
\* has t = NaN
C17_WitnessNaN ==
    /\ fn_call = "Cube::intersect"
    /\ C17_Ray = ray(point(RZero, RZero, ROne), vector(ROne, RZero, RZero))
    /\ C17_Z = <<NegInfinity, NaN>>
    /\ fn_result[1] = Ok(<<intersection(R(-1), 1), intersection(NaN, 1)>>)

C18_Ray == fn_args[1].ray2

\* C18: Plane::intersect returns no intersection when |direction.y| of the
\* local ray is below EPSILON, and otherwise exactly one intersection, of
\* the plane, at t = -origin.y / direction.y, from above and from below.
C18_PlaneIntersect ==
    fn_call = "Plane::intersect" =>
        fn_result[1] =
            IF RLt(RAbs(C18_Ray.direction.y), EPSILON) THEN Ok(<<>>)
            ELSE Ok(<<intersection(RDiv(RNeg(C18_Ray.origin.y), C18_Ray.direction.y), 1)>>)

\* from above: origin.y = 5, direction.y = -1, t = 5
C18_Witness ==
    /\ fn_call = "Plane::intersect"
    /\ C18_Ray.origin.y = R(5) /\ C18_Ray.direction.y = R(-1)
    /\ fn_result[1] = Ok(<<intersection(R(5), 1)>>)

\* from below, and a ray that lies in the plane with a direction below EPSILON
C18_WitnessBelow ==
    /\ fn_call = "Plane::intersect"
    /\ C18_Ray.origin.y = R(-2) /\ C18_Ray.direction.y = ROne
    /\ fn_result[1] = Ok(<<intersection(R(2), 1)>>)

C18_WitnessParallel ==
    /\ fn_call = "Plane::intersect"
    /\ C18_Ray.origin.y = RZero /\ C18_Ray.direction.y = Rat(1, 200000)
    /\ fn_result[1] = Ok(<<>>)

\* ------------------------------------------------------------------------
\* Template::color_at (src/src/pattern.rs) for Stripe and Checkers
\* ------------------------------------------------------------------------
Stripe(a, b) == [kind |-> "Stripe", a |-> a, b |-> b]
Checkers(a, b) == [kind |-> "Checkers", a |-> a, b |-> b]

\* f64::floor and f64::trunc of a rational, as integers
floor(a) == a[1] \div a[2]
trunc(a) == IF a[1] >= 0 THEN a[1] \div a[2] ELSE -((-a[1]) \div a[2])

\* the f64 operator % on the integers n and 2: the remainder has the sign
\* of n
rem2(n) == IF n >= 0 THEN n % 2 ELSE -((-n) % 2)

Template_color_at_truncating(template, p) ==
    CASE template.kind = "Checkers" ->
             IF rem2(trunc(p.x) + trunc(p.y) + trunc(p.z)) = 0 THEN template.a ELSE template.b
      [] template.kind = "Stripe" ->
             IF rem2(trunc(p.x)) = 0 THEN template.a ELSE template.b

Template_color_at(template, p) ==
    CASE template.kind = "Checkers" ->
             IF rem2(floor(p.x) + floor(p.y) + floor(p.z)) = 0 THEN template.a ELSE template.b
      [] template.kind = "Stripe" ->
             IF rem2(floor(p.x)) = 0 THEN template.a ELSE template.b

MaxPatternCoord == 2

\* the coordinates -MaxPatternCoord, ..., -1/2, 0, 1/2, ..., MaxPatternCoord
PatternCoords == { Rat(n, 2) : n \in (-2 * MaxPatternCoord) .. (2 * MaxPatternCoord) }
PatternTemplates == {Stripe(White, Black), Checkers(White, Black)}

InitPattern ==
    /\ \E template \in PatternTemplates,
          x \in PatternCoords, y \in PatternCoords, z \in PatternCoords :
          fn_args = Some([template |-> template, point |-> point(x, y, z)])
    /\ fn_call = "idle" /\ fn_result = None
    /\ MatIdle /\ IxIdle /\ CaIdle /\ RnIdle /\ ShIdle

TemplateColorAt ==
    /\ fn_call = "idle"
    /\ fn_call' = "color_at"
    /\ fn_result' = Some(Template_color_at(fn_args[1].template, fn_args[1].point))
    /\ UNCHANGED <<matVars, ixVars, caVars, rnVars, shVars, fn_args>>

NextPattern == TemplateColorAt

SpecPattern == InitPattern /\ [][NextPattern]_vars

C19_P == fn_args[1].point
\* the greatest integer not above a
C19_Floor(a) == CHOOSE n \in (-MaxPatternCoord - 1) .. (MaxPatternCoord + 1) :
                    RLe(R(n), a) /\ RLt(a, R(n + 1))
C19_Even(n) == \E k \in (-3 * MaxPatternCoord - 3) .. (3 * MaxPatternCoord + 3) : n = 2 * k

\* C19: Stripe returns its first colour exactly when floor(x) is even and
\* its second when it is odd, for negative x as well (x in [-1, 0) gives
\* the second, x in [-2, -1) the first), whatever y and z are; Checkers
\* returns its first colour exactly when floor(x) + floor(y) + floor(z) is
\* even.
C19_StripeAndCheckers ==
    fn_call = "color_at" =>
        /\ fn_args[1].template.kind = "Stripe" =>
              /\ fn_result[1] = IF C19_Even(C19_Floor(C19_P.x)) THEN White ELSE Black
              /\ RLe(R(-1), C19_P.x) /\ RLt(C19_P.x, RZero) => fn_result[1] = Black
              /\ RLe(R(-2), C19_P.x) /\ RLt(C19_P.x, R(-1)) => fn_result[1] = White
        /\ fn_args[1].template.kind = "Checkers" =>
              fn_result[1] = IF C19_Even(C19_Floor(C19_P.x) + C19_Floor(C19_P.y)
                                         + C19_Floor(C19_P.z))
                             THEN White ELSE Black

\* a stripe at x = -1/2, off the x axis
C19_Witness ==
    /\ fn_call = "color_at" /\ fn_args[1].template.kind = "Stripe"
    /\ C19_P.x = Rat(-1, 2) /\ C19_P.y = R(1) /\ C19_P.z = Rat(-3, 2)
    /\ fn_result[1] = Black

\* checkers with floors -1, -2 and 1
C19_WitnessCheckers ==
    /\ fn_call = "color_at" /\ fn_args[1].template.kind = "Checkers"
    /\ C19_P = point(Rat(-1, 2), Rat(-3, 2), Rat(3, 2))
    /\ fn_result[1] = White

\* ------------------------------------------------------------------------
\* World::intersect on a world of a sphere, a cube and a plane, all with
\* the identity transform: the cube and the plane meet the ray itself, the
\* t values of the sphere are given
\* ------------------------------------------------------------------------
WorldLocal == World_new(<<SBoth, LocalCube, LocalPlane>>, <<LightWhite>>)
WorldSphereRoots == { <<>>, <<R(-3), R(-1)>>, <<R(2), R(2)>>, <<R(4), R(6)>> }

\* roots[i] of World_intersect for the ray and the sphere's t values
WorldRoots(r, sphere) == <<sphere, Cube_roots(r), Plane_roots(r)>>

InitWorld ==
    /\ \E ox \in LocalOrigins, oy \in LocalOrigins, oz \in LocalOrigins,
          dx \in LocalDirections, dy \in LocalDirections, dz \in LocalDirections,
          sphere \in WorldSphereRoots :
          fn_args = Some([ray |-> ray(point(ox, oy, oz), vector(dx, dy, dz)),
                          sphere |-> sphere])
    /\ fn_call = "idle" /\ fn_result = None
    /\ MatIdle /\ IxIdle /\ CaIdle /\ RnIdle /\ ShIdle

WorldIntersect ==
    /\ fn_call = "idle"
    /\ fn_call' = "World::intersect"
    /\ fn_result' = Some(World_intersect(WorldLocal,
                                         WorldRoots(fn_args[1].ray, fn_args[1].sphere)))
    /\ UNCHANGED <<matVars, ixVars, caVars, rnVars, shVars, fn_args>>

NextWorld == WorldIntersect

SpecWorld == InitWorld /\ [][NextWorld]_vars

C21_Roots == WorldRoots(fn_args[1].ray, fn_args[1].sphere)
\* every object's intersect result, one after the other
C21_Concatenation ==
    Object_intersect(WorldLocal.objects[1], 1, C21_Roots[1]).val
    \o Object_intersect(WorldLocal.objects[2], 2, C21_Roots[2]).val
    \o Object_intersect(WorldLocal.objects[3], 3, C21_Roots[3]).val
C21_Count(s, x) == Cardinality({ i \in 1 .. Len(s) : s[i] = x })
C21_Permutation(s, u) ==
    /\ Len(s) = Len(u)
    /\ \A i \in 1 .. Len(u) : C21_Count(s, u[i]) = C21_Count(u, u[i])
C21_Ascending(s) ==
    \A i, j \in 1 .. Len(s) : i < j => ~partial_lt(s[j].t, s[i].t)

\* C21: the list World::intersect returns is a permutation of the
\* concatenation of every object's intersect result (nothing dropped or
\* duplicated, negative t included) and is sorted ascending by t.
C21_SortedPermutation ==
    fn_call = "World::intersect" /\ ~fn_result[1].panic =>
        /\ C21_Permutation(fn_result[1].val, C21_Concatenation)
        /\ C21_Ascending(fn_result[1].val)

\* five intersections, given out of order, two of them with the same t,
\* one negative
C21_Witness ==
    /\ fn_call = "World::intersect" /\ ~fn_result[1].panic
    /\ Len(fn_result[1].val) = 5
    /\ fn_result[1].val # C21_Concatenation
    /\ RLt(fn_result[1].val[1].t, RZero)
    /\ \E i \in 1 .. 4 : fn_result[1].val[i].t = fn_result[1].val[i + 1].t

C22_Ray == fn_args[1].ray
C22_Cube == Cube_roots(C22_Ray)
C22_Below(direction) == RLt(RAbs(direction), EPSILON)
\* an axis the ray does not move along, with the origin outside the slab
C22_Outside(origin, direction) == C22_Below(direction) /\ RGt(RAbs(origin), ROne)
\* the same with the origin inside the slab, its faces included
C22_Inside(origin, direction) == C22_Below(direction) /\ RLe(RAbs(origin), ROne)
C22_StrictlyInside(origin, direction) == C22_Below(direction) /\ RLt(RAbs(origin), ROne)
C22_AnyOutside ==
    \/ C22_Outside(C22_Ray.origin.x, C22_Ray.direction.x)
    \/ C22_Outside(C22_Ray.origin.y, C22_Ray.direction.y)
    \/ C22_Outside(C22_Ray.origin.z, C22_Ray.direction.z)
C22_OnFace ==
    \/ C17_OnFace(C22_Ray.origin.x, C22_Ray.direction.x)
    \/ C17_OnFace(C22_Ray.origin.y, C22_Ray.direction.y)
    \/ C17_OnFace(C22_Ray.origin.z, C22_Ray.direction.z)
\* the ray moves along no axis
C22_Still ==
    /\ C22_Below(C22_Ray.direction.x) /\ C22_Below(C22_Ray.direction.y)
    /\ C22_Below(C22_Ray.direction.z)
\* the slab of an axis that holds for every t
C22_AlwaysTrue == <<NegInfinity, Infinity>>
C22_NoNaN(xs) == \A i \in 1 .. Len(xs) : xs[i].t # NaN

C22_Slabs(inside(_, _)) ==
    /\ C22_AnyOutside => C22_Cube = <<>>
    /\ inside(C22_Ray.origin.x, C22_Ray.direction.x) =>
          check_axis(C22_Ray.origin.x, C22_Ray.direction.x) = C22_AlwaysTrue
    /\ inside(C22_Ray.origin.y, C22_Ray.direction.y) =>
          check_axis(C22_Ray.origin.y, C22_Ray.direction.y) = C22_AlwaysTrue
    /\ inside(C22_Ray.origin.z, C22_Ray.direction.z) =>
          check_axis(C22_Ray.origin.z, C22_Ray.direction.z) = C22_AlwaysTrue

\* C22: a ray-direction component below EPSILON on a cube axis makes that
\* axis' slab always-false (the cube reports no intersection) when the
\* origin is outside [-1, 1] on the axis and always-true when it is inside,
\* the origin exactly at -1 or 1 included, and neither a panic nor a NaN t
\* value reaches World::intersect's caller.
C22_ZeroDirectionHandledLocally ==
    fn_call = "World::intersect" =>
        /\ C22_Slabs(C22_Inside)
        /\ ~fn_result[1].panic
        /\ C22_NoNaN(fn_result[1].val)

\* the same on the rays that move along some axis and have no origin
\* coordinate on a face of an axis they do not move along
C22_OffFaces ==
    fn_call = "World::intersect" /\ ~C22_OnFace /\ ~C22_Still =>
        /\ C22_Slabs(C22_StrictlyInside)
        /\ ~fn_result[1].panic
        /\ C22_NoNaN(fn_result[1].val)

\* origin (0, 0, 1), direction (1, 0, 0): the cube returns t = (-1, NaN)
\* and the sort of World::intersect panics
C22_WitnessPanic ==
    /\ fn_call = "World::intersect"
    /\ C22_Ray = ray(point(RZero, RZero, ROne), vector(ROne, RZero, RZero))
    /\ C22_Cube = <<R(-1), NaN>>
    /\ fn_result[1].panic

\* origin (5, 0, 0) and a direction below EPSILON on every axis: the cube
\* returns t = (-inf, -inf) although the origin is outside the x slab
C22_WitnessStill ==
    /\ fn_call = "World::intersect"
    /\ C22_Ray = ray(point(R(5), RZero, RZero), vector(RZero, RZero, RZero))
    /\ C22_Cube = <<NegInfinity, NegInfinity>>

\* ------------------------------------------------------------------------
\* Cube::normal_at on a point
\* ------------------------------------------------------------------------
Cube_normal_at_of(p, max_c) ==
    IF max_c = RAbs(p.x) THEN vector(p.x, RZero, RZero)
    ELSE IF max_c = RAbs(p.y) THEN vector(RZero, p.y, RZero)
    ELSE vector(RZero, RZero, p.z)

Cube_normal_at_z_first(p) ==
    LET max_c == max3(RAbs(p.x), RAbs(p.y), RAbs(p.z))
    IN  IF max_c = RAbs(p.z) THEN vector(RZero, RZero, p.z)
        ELSE IF max_c = RAbs(p.y) THEN vector(RZero, p.y, RZero)
        ELSE vector(p.x, RZero, RZero)

Cube_normal_at(p) == Cube_normal_at_of(p, max3(RAbs(p.x), RAbs(p.y), RAbs(p.z)))

NormalCoords == {R(-1), Rat(-1, 2), RZero, Rat(1, 2), ROne}

InitNormal ==
    /\ \E x \in NormalCoords, y \in NormalCoords, z \in NormalCoords :
          fn_args = Some([p |-> point(x, y, z)])
    /\ fn_call = "idle" /\ fn_result = None
    /\ MatIdle /\ IxIdle /\ CaIdle /\ RnIdle /\ ShIdle

CubeNormalAt ==
    /\ fn_call = "idle"
    /\ fn_call' = "Cube::normal_at"
    /\ fn_result' = Some(Cube_normal_at(fn_args[1].p))
    /\ UNCHANGED <<matVars, ixVars, caVars, rnVars, shVars, fn_args>>

NextNormal == CubeNormalAt

SpecNormal == InitNormal /\ [][NextNormal]_vars

C23_P == fn_args[1].p
C23_Largest(c) == RGe(RAbs(c), RAbs(C23_P.x)) /\ RGe(RAbs(c), RAbs(C23_P.y)) /\ RGe(RAbs(c), RAbs(C23_P.z))

\* C23: Cube::normal_at returns the vector along the axis of the
\* coordinate with the largest absolute value, that coordinate in its
\* place and 0 elsewhere; among coordinates that tie for the largest x
\* wins over y and y over z: (1, 1, 1) gives (1, 0, 0) and (-1, -1, -1)
\* gives (-1, 0, 0).
C23_CubeNormal ==
    fn_call = "Cube::normal_at" =>
        /\ fn_result[1] =
              IF C23_Largest(C23_P.x) THEN vector(C23_P.x, RZero, RZero)
              ELSE IF C23_Largest(C23_P.y) THEN vector(RZero, C23_P.y, RZero)
              ELSE vector(RZero, RZero, C23_P.z)
        /\ C23_P = point(ROne, ROne, ROne) => fn_result[1] = vector(ROne, RZero, RZero)
        /\ C23_P = point(R(-1), R(-1), R(-1)) => fn_result[1] = vector(R(-1), RZero, RZero)

\* y and z tie for the largest: y wins, with its sign
C23_Witness ==
    /\ fn_call = "Cube::normal_at"
    /\ C23_P = point(Rat(1, 2), R(-1), ROne)
    /\ fn_result[1] = vector(RZero, R(-1), RZero)

C23_WitnessCorner ==
    /\ fn_call = "Cube::normal_at"
    /\ C23_P = point(R(-1), R(-1), R(-1))
    /\ fn_result[1] = vector(R(-1), RZero, RZero)

\* ------------------------------------------------------------------------
\* Intersection::prepare, the vectors of the ComputedIntersection: applied
\* to a ray and an intersection that a cube or a plane found on it
\* ------------------------------------------------------------------------
\* impl Mul<Tuple> for Matrix, on a 4x4 matrix
mul_tuple(m, other) ==
    LET value(n) ==
            RAdd(RAdd(RMul(at(m, n, 0), other.x), RMul(at(m, n, 1), other.y)),
                 RAdd(RMul(at(m, n, 2), other.z), RMul(at(m, n, 3), other.w)))
    IN  tuple(value(0), value(1), value(2), value(3))

Tuple_dot(a, rhs) ==
    RAdd(RAdd(RMul(a.x, rhs.x), RMul(a.y, rhs.y)), RAdd(RMul(a.z, rhs.z), RMul(a.w, rhs.w)))

Ray_position(r, t) == Tuple_add(r.origin, Tuple_mul(r.direction, t))
Ray_transform(r, m) == ray(mul_tuple(m, r.origin), mul_tuple(m, r.direction))

\* Object::normal_at of a cube and of a plane
normal_at(shape, p) ==
    IF shape.kind = "Cube" THEN Cube_normal_at(p) ELSE vector(RZero, ROne, RZero)

\* the t values intersect finds: those of the local ray
\* ray.transform(self.transform().inverse()?)
local_roots(shape, ray2) ==
    IF shape.kind = "Cube" THEN Cube_roots(ray2) ELSE Plane_roots(ray2)
intersect_roots(shape, r) ==
    local_roots(shape, Ray_transform(r, transform_inverse(shape.transform).val))

\* prepare up to under_point; normal is self.object.normal_at(r.position(self.t))
prepare_vectors(r, t, normal) ==
    LET p == Ray_position(r, t)
        eye_v == Tuple_neg(r.direction)
        is_inside == RLt(Tuple_dot(normal, eye_v), RZero)
        normal_v == IF is_inside THEN Tuple_neg(normal) ELSE normal
    IN  [point |-> p, eye_v |-> eye_v, normal_v |-> normal_v, is_inside |-> is_inside,
         over_point |-> Tuple_add(p, Tuple_mul(normal_v, EPSILON)),
         under_point |-> Tuple_sub(p, Tuple_mul(normal_v, EPSILON))]

PrepareShapes ==
    { LocalCube, LocalPlane,
      Shape("Cube", 2, TranslateDown, MMatte), Shape("Plane", 3, TranslateDown, MMatte) }
PrepareOrigins == {R(-2), RZero, R(2)}
PrepareDirections == {R(-1), RZero, ROne}

\* a ray, a shape, and one of the finite t values the shape finds on the ray
InitPrepare ==
    /\ \E shape \in PrepareShapes,
          ox \in PrepareOrigins, oy \in PrepareOrigins, oz \in PrepareOrigins,
          dx \in PrepareDirections, dy \in PrepareDirections, dz \in PrepareDirections :
          LET r == ray(point(ox, oy, oz), vector(dx, dy, dz))
          IN  \E k \in 1 .. 2 :
                  /\ k <= Len(intersect_roots(shape, r))
                  /\ intersect_roots(shape, r)[k][2] # 0
                  /\ fn_args = Some([shape |-> shape, r |-> r,
                                     t |-> intersect_roots(shape, r)[k]])
    /\ fn_call = "idle" /\ fn_result = None
    /\ MatIdle /\ IxIdle /\ CaIdle /\ RnIdle /\ ShIdle

PrepareVectors ==
    /\ fn_call = "idle"
    /\ fn_call' = "prepare"
    /\ fn_result' = Some(prepare_vectors(fn_args[1].r, fn_args[1].t,
                             normal_at(fn_args[1].shape,
                                       Ray_position(fn_args[1].r, fn_args[1].t))))
    /\ UNCHANGED <<matVars, ixVars, caVars, rnVars, shVars, fn_args>>

NextPrepare == PrepareVectors

SpecPrepare == InitPrepare /\ [][NextPrepare]_vars

C24_R == fn_args[1].r
C24_Comps == fn_result[1]
\* the shape's normal at the hit point
C24_Normal == normal_at(fn_args[1].shape, Ray_position(C24_R, fn_args[1].t))
C24_ZeroVector == vector(RZero, RZero, RZero)

C24_Flip ==
    /\ C24_Comps.point = Ray_position(C24_R, fn_args[1].t)
    /\ C24_Comps.eye_v = Tuple_neg(C24_R.direction)
    /\ C24_Comps.is_inside = RLt(Tuple_dot(C24_Normal, C24_Comps.eye_v), RZero)
    /\ C24_Comps.normal_v = IF C24_Comps.is_inside THEN Tuple_neg(C24_Normal) ELSE C24_Normal
    /\ RGe(Tuple_dot(C24_Comps.normal_v, C24_Comps.eye_v), RZero)
    /\ C24_Comps.over_point = Tuple_add(C24_Comps.point, Tuple_mul(C24_Comps.normal_v, EPSILON))
    /\ C24_Comps.under_point = Tuple_sub(C24_Comps.point, Tuple_mul(C24_Comps.normal_v, EPSILON))

\* over_point and under_point on opposite sides of the point along normal_v
C24_OppositeSides ==
    /\ RGt(Tuple_dot(Tuple_sub(C24_Comps.over_point, C24_Comps.point), C24_Comps.normal_v), RZero)
    /\ RLt(Tuple_dot(Tuple_sub(C24_Comps.under_point, C24_Comps.point), C24_Comps.normal_v), RZero)

\* C24: after prepare eye_v is the negated ray direction, is_inside is true
\* exactly when the shape's normal at the hit point has a negative dot
\* product with eye_v, normal_v . eye_v >= 0, and over_point = point +
\* normal_v * EPSILON and under_point = point - normal_v * EPSILON lie on
\* opposite sides of the hit point along normal_v.
C24_PrepareVectors == fn_call = "prepare" => C24_Flip /\ C24_OppositeSides

\* the same wherever the shape's normal at the hit point is not (0, 0, 0)
C24_NonZeroNormal ==
    fn_call = "prepare" /\ C24_Normal # C24_ZeroVector => C24_Flip /\ C24_OppositeSides

\* what prepare computes, the zero normal included
C24_Computed == fn_call = "prepare" => C24_Flip

\* a hit from inside the cube: the normal is flipped
C24_WitnessInside ==
    /\ fn_call = "prepare" /\ fn_args[1].shape = LocalCube
    /\ C24_Comps.is_inside /\ C24_Comps.normal_v = Tuple_neg(C24_Normal)
    /\ C24_OppositeSides

\* the cube moved down by 1, hit on its top face at the world's origin:
\* normal_at returns (0, 0, 0) and over_point = under_point = point
C24_WitnessZeroNormal ==
    /\ fn_call = "prepare" /\ fn_args[1].shape = Shape("Cube", 2, TranslateDown, MMatte)
    /\ C24_R = ray(point(RZero, R(2), RZero), vector(RZero, R(-1), RZero))
    /\ fn_args[1].t = R(2)
    /\ C24_Normal = C24_ZeroVector
    /\ C24_Comps.over_point = C24_Comps.point /\ C24_Comps.under_point = C24_Comps.point

\* ------------------------------------------------------------------------
\* Matrix::determinant and Matrix::cofactor on 2x2, 3x3 and 4x4 matrices
\* ------------------------------------------------------------------------
InitDeterminant ==
    /\ \E m \in Inputs4 \cup Inputs3 \cup Inputs2 : fn_args = Some([m |-> m])
    /\ fn_call = "idle" /\ fn_result = None
    /\ MatIdle /\ IxIdle /\ CaIdle /\ RnIdle /\ ShIdle

\* determinant(), and cofactor(r, c) for every r and c of a 3x3 or 4x4
MatrixDeterminant ==
    /\ fn_call = "idle"
    /\ fn_call' = "determinant"
    /\ fn_result' = Some([determinant |-> determinant(fn_args[1].m),
                          cofactor |-> IF fn_args[1].m.size = 2 THEN <<>>
                                       ELSE [r \in 0 .. fn_args[1].m.size - 1 |->
                                             [c \in 0 .. fn_args[1].m.size - 1 |->
                                                 cofactor(fn_args[1].m, r, c)]]])
    /\ UNCHANGED <<matVars, ixVars, caVars, rnVars, shVars, fn_args>>

NextDeterminant == MatrixDeterminant

SpecDeterminant == InitDeterminant /\ [][NextDeterminant]_vars

C25_M == fn_args[1].m
\* the permutations of 0 .. n - 1 and their signs
C25_Permutations(n) ==
    { f \in [0 .. n - 1 -> 0 .. n - 1] : \A i, j \in 0 .. n - 1 : i # j => f[i] # f[j] }
C25_Sign(f, n) ==
    IF Cardinality({ p \in (0 .. n - 1) \X (0 .. n - 1) : p[1] < p[2] /\ f[p[1]] > f[p[2]] }) % 2 = 0
    THEN ROne ELSE R(-1)
RECURSIVE C25_Product(_, _, _)
\* the product of e[i][f[i]] for i below n
C25_Product(e, f, n) ==
    IF n = 0 THEN ROne ELSE RMul(C25_Product(e, f, n - 1), e[n - 1][f[n - 1]])
RECURSIVE C25_Sum(_, _, _)
C25_Sum(e, n, fs) ==
    IF fs = {} THEN RZero
    ELSE LET f == CHOOSE g \in fs : TRUE
         IN  RAdd(RMul(C25_Sign(f, n), C25_Product(e, f, n)), C25_Sum(e, n, fs \ {f}))
\* the determinant of the n x n entries e, as the sum over the permutations
C25_Leibniz(e, n) == C25_Sum(e, n, C25_Permutations(n))
\* the entries of m without row r and column c
C25_Without(m, r, c) ==
    [y \in 0 .. m.size - 2 |-> [x \in 0 .. m.size - 2 |->
        m.values[IF y >= r THEN y + 1 ELSE y][IF x >= c THEN x + 1 ELSE x]]]

\* C25: determinant is the determinant of the matrix for every 2x2 (ad -
\* bc), 3x3 and 4x4 matrix, and cofactor(r, c) of a 3x3 or 4x4 matrix is
\* the determinant of the matrix without row r and column c, negated
\* exactly when r + c is odd.
C25_Determinant ==
    fn_call = "determinant" =>
        /\ fn_result[1].determinant = C25_Leibniz(C25_M.values, C25_M.size)
        /\ C25_M.size = 2 =>
              fn_result[1].determinant =
                  RSub(RMul(C25_M.values[0][0], C25_M.values[1][1]),
                       RMul(C25_M.values[0][1], C25_M.values[1][0]))
        /\ C25_M.size > 2 =>
              \A r, c \in 0 .. C25_M.size - 1 :
                  fn_result[1].cofactor[r][c] =
                      RMul(IF (r + c) % 2 = 1 THEN R(-1) ELSE ROne,
                           C25_Leibniz(C25_Without(C25_M, r, c), C25_M.size - 1))

\* a 4x4 matrix with a determinant other than 0, 1 and -1
C25_Witness ==
    /\ fn_call = "determinant" /\ C25_M.size = 4
    /\ RGt(RAbs(fn_result[1].determinant), ROne)
    /\ fn_result[1].cofactor[0][1] # RZero
    /\ fn_result[1].cofactor[0][1] = RNeg(minor(C25_M, 0, 1))

C25_Witness2 ==
    /\ fn_call = "determinant" /\ C25_M.size = 2
    /\ fn_result[1].determinant = R(-2)

C25_Witness3 ==
    /\ fn_call = "determinant" /\ C25_M.size = 3
    /\ RLt(fn_result[1].determinant, R(-1))

\* C26: for every t-sorted list xs and every element h of xs, prepare(h,
\* xs) yields the n1 and n2 of h's own position in the walk, also when
\* another element of xs compares equal to h (t within EPSILON and an
\* equal material).
C26_OwnPosition ==
    (ix_op = "prepare" /\ C4_Ordered) =>
        /\ ix_comps[1].n1 = C4_Index(C4_StackAfter(ix_self - 1))
        /\ ix_comps[1].n2 = C4_Index(C4_StackAfter(ix_self))

\* the positions of ix_xs whose element compares equal to the one prepare ran on
C26_EqualToSelf ==
    { i \in IxPositions : Intersection_eq(IxObjects, ix_xs[i], ix_xs[ix_self]) }
C26_Last == CHOOSE i \in C26_EqualToSelf : \A j \in C26_EqualToSelf : j <= i

\* what prepare yields: the n1 and n2 of the last position whose element
\* compares equal to h
C26_LastEqualPosition ==
    (ix_op = "prepare" /\ C4_Ordered) =>
        /\ ix_comps[1].n1 = C4_Index(C4_StackAfter(C26_Last - 1))
        /\ ix_comps[1].n2 = C4_Index(C4_StackAfter(C26_Last))

\* the two equal roots of a tangent hit of the sphere (refractive index
\* 3), prepare on the first: n1 = 3 and n2 = 1, those of the second
C26_WitnessTangent ==
    /\ ix_op = "prepare" /\ Len(ix_xs) = 2 /\ ix_self = 1
    /\ ix_xs[1] = intersection(ROne, 1) /\ ix_xs[2] = intersection(ROne, 1)
    /\ ix_comps[1].n1 = R(3) /\ ix_comps[1].n2 = ROne
    /\ C4_Index(C4_StackAfter(0)) = ROne /\ C4_Index(C4_StackAfter(1)) = R(3)

\* how often the shape o occurs among the first n intersections of ix_xs
C27_Occurrences(o, n) == Cardinality({ i \in 1 .. n : ix_xs[i].object = o })
C27_Odd(k) == k % 2 = 1
C27_NoShapeTwice(stack) ==
    \A i, j \in 1 .. Len(stack) : i # j => stack[i] # stack[j]

\* C27: after every prefix of xs the containers stack of prepare's walk
\* holds no shape twice and holds a shape exactly when the shape occurs an
\* odd number of times in the prefix; after a list in which every shape
\* occurs an even number of times the stack is empty.
C27_StackParity ==
    ix_op = "prepare" =>
        /\ \A n \in 0 .. Len(ix_xs) :
              /\ C27_NoShapeTwice(C20_StackAfter(n))
              /\ \A o \in 1 .. Len(IxObjects) :
                    C20_On(C20_StackAfter(n), o) <=> C27_Odd(C27_Occurrences(o, n))
        /\ (\A o \in 1 .. Len(IxObjects) : ~C27_Odd(C27_Occurrences(o, Len(ix_xs))))
              => C20_StackAfter(Len(ix_xs)) = <<>>

\* sphere, cube, sphere: the stack is <<1>>, <<1, 2>>, then <<2>>
C27_Witness ==
    /\ ix_op = "prepare" /\ Len(ix_xs) = 3
    /\ ix_xs[1].object = 1 /\ ix_xs[2].object = 2 /\ ix_xs[3].object = 1
    /\ C20_StackAfter(1) = <<1>> /\ C20_StackAfter(2) = <<1, 2>> /\ C20_StackAfter(3) = <<2>>
    /\ C27_Occurrences(1, 3) = 2 /\ C27_Occurrences(2, 3) = 1

\* a shape entered and left: the stack is empty again
C27_WitnessEmpty ==
    /\ ix_op = "prepare" /\ Len(ix_xs) = 2
    /\ ix_xs[1].object = 3 /\ ix_xs[2].object = 3
    /\ C20_StackAfter(1) = <<3>> /\ C20_StackAfter(2) = <<>>

\* ------------------------------------------------------------------------
\* C28: the fold of shade_hit over light_sources
\* ------------------------------------------------------------------------
C28_L == Len(TheWorld.light_sources)
C28_InRound == {"reflected_color", "reflected_color_call",
                "refracted_color", "refracted_color_call", "round"}

\* where an activation goes from each place it can stand at
C28_After(pc) ==
    CASE pc = "color_at" -> {"shade_hit", "return"}
      [] pc = "shade_hit" -> {"reflected_color", "return"}
      [] pc = "reflected_color" -> {"reflected_color_call", "refracted_color"}
      [] pc = "reflected_color_call" -> {"refracted_color"}
      [] pc = "refracted_color" -> {"refracted_color_call", "round"}
      [] pc = "refracted_color_call" -> {"round"}
      [] pc = "round" -> {"shade_hit"}
      [] OTHER -> {}

\* every activation: its fold stands at a light or past the last one, it is
\* inside reflected_color or refracted_color only in a round of a light, and
\* shade_hit has returned only after a round for each light
C28_Fold(f) ==
    /\ f.light \in 1 .. C28_L + 1
    /\ f.pc \in C28_InRound => f.light <= C28_L
    /\ f.pc = "return" /\ f.comps # None => f.light = C28_L + 1

\* no light: nothing but the primary activation, no call of reflected_color
\* or refracted_color, and black
C28_NoLight ==
    C28_L = 0 =>
        /\ Len(ca_stack) <= 1
        /\ \A i \in Frames : ca_stack[i].pc \notin C28_InRound /\ ca_stack[i].color = Black
        /\ ca_result \in {None, Some(Black)}

\* a round goes through reflected_color and refracted_color once, in this
\* order, and only the end of a round moves the fold to the next light
C28_Step ==
    \A i \in Frames :
        i <= Len(ca_stack') /\ ca_stack'[i] # ca_stack[i] =>
            /\ ca_stack'[i].pc \in C28_After(ca_stack[i].pc)
            /\ ca_stack'[i].light =
                  IF ca_stack[i].pc = "round" THEN ca_stack[i].light + 1
                  ELSE IF ca_stack[i].pc = "color_at" THEN 1
                  ELSE ca_stack[i].light

\* C28: with no light sources shade_hit returns black for every hit, every
\* remaining and every material and casts no secondary ray; with L lights it
\* calls reflected_color and refracted_color exactly L times each, once in
\* the round of each light.
C28_OncePerLight ==
    /\ [](C28_NoLight /\ \A i \in Frames : C28_Fold(ca_stack[i]))
    /\ [][C28_Step]_vars

\* two lights: shade_hit has returned after two rounds, each of which got a
\* colour from reflected_color and from refracted_color
C28_Witness ==
    /\ Running /\ Len(Worlds[ca_world].light_sources) = 2
    /\ Top.pc = "return" /\ Top.comps # None /\ Top.light = 3
    /\ Top.reflected # Black /\ Top.refracted # Black
    /\ Top.remaining > 0

\* no light: shade_hit has returned black for a hit on a reflective and
\* transparent surface with remaining > 0
C28_WitnessNoLight ==
    /\ Running /\ Worlds[ca_world].light_sources = <<>>
    /\ Top.pc = "return" /\ Top.comps # None
    /\ RGt(TopMaterial.reflective, RZero) /\ RGt(TopMaterial.transparency, RZero)
    /\ Top.remaining > 0
    /\ Top.color = Black /\ Len(ca_stack) = 1

\* ------------------------------------------------------------------------
\* PartialEq for Matrix
\* ------------------------------------------------------------------------
\* !n of a usize n, as the two's-complement number of the same bits: the
\* usize is 2^64 - (n + 1), which no size 0 .. 4 equals
usize_not(n) == -(n + 1)

\* the loop over self.values: all 16 stored cells, whatever the size
Matrix_eq_cells(self, other) ==
    \A y \in Idx4 : \A x \in Idx4 :
        ~RGt(RAbs(RSub(at(self, y, x), at(other, y, x))), MatrixEpsilon)

Matrix_eq(self, other) ==
    IF usize_not(self.size) = other.size THEN FALSE
    ELSE Matrix_eq_cells(self, other)

\* matrices of size 2, 3 and 4 with cells (0, 0), (1, 1) and (size - 1,
\* size - 1) drawn and 0.0 elsewhere; the values of cell (0, 0) lie 0.00005,
\* 0.0001 and 0.0002 from 0.0
EqCorners == { RZero, <<1, 20000>>, <<1, 10000>>, <<1, 5000>>, ROne }
EqMatrix(size, e, f, g) ==
    MatrixFrom([i \in 1 .. size |-> [j \in 1 .. size |->
        IF i = 1 /\ j = 1 THEN e
        ELSE IF i = size /\ j = size THEN g
        ELSE IF i = 2 /\ j = 2 THEN f
        ELSE RZero]])
EqMatrices ==
    { EqMatrix(size, e, f, g) : size \in 2 .. 4, e \in EqCorners,
                                f \in {RZero, ROne}, g \in {RZero, ROne} }

InitEq ==
    /\ \E a \in EqMatrices : \E b \in EqMatrices : fn_args = Some([self |-> a, other |-> b])
    /\ fn_call = "idle" /\ fn_result = None
    /\ MatIdle /\ IxIdle /\ CaIdle /\ RnIdle /\ ShIdle

\* self == other
MatrixEq ==
    /\ fn_call = "idle"
    /\ fn_call' = "eq"
    /\ fn_result' = Some(Matrix_eq(fn_args[1].self, fn_args[1].other))
    /\ UNCHANGED <<matVars, ixVars, caVars, rnVars, shVars, fn_args>>

NextEq == MatrixEq

SpecEq == InitEq /\ [][NextEq]_vars

C29_Self == fn_args[1].self
C29_Other == fn_args[1].other
\* the entries of the size x size matrix differ by at most 0.0001
C29_EntriesClose ==
    \A y \in 0 .. C29_Self.size - 1 : \A x \in 0 .. C29_Self.size - 1 :
        RLe(RAbs(RSub(at(C29_Self, y, x), at(C29_Other, y, x))), MatrixEpsilon)

\* C29: == holds only between matrices of the same size whose corresponding
\* entries differ by at most 0.0001; matrices of different sizes never
\* compare equal.
C29_EqualOnlySameSize ==
    fn_call = "eq" /\ fn_result[1] =>
        C29_Self.size = C29_Other.size /\ C29_EntriesClose

\* C29, what == decides: for two matrices of one size, whether all entries
\* differ by at most 0.0001; for any two matrices, whether all 16 stored
\* cells do
C29_EqualSameSize ==
    fn_call = "eq" =>
        /\ fn_result[1] <=> Matrix_eq_cells(C29_Self, C29_Other)
        /\ C29_Self.size = C29_Other.size => (fn_result[1] <=> C29_EntriesClose)

\* a 2x2 and a 3x3 matrix compare equal
C29_WitnessSizes ==
    /\ fn_call = "eq" /\ fn_result[1]
    /\ C29_Self.size = 2 /\ C29_Other.size = 3
    /\ at(C29_Self, 0, 0) = ROne /\ at(C29_Other, 0, 0) = ROne

\* entries 0.0001 apart compare equal, entries 0.0002 apart do not
C29_WitnessClose ==
    /\ fn_call = "eq" /\ fn_result[1]
    /\ C29_Self.size = 3 /\ C29_Other.size = 3
    /\ at(C29_Self, 0, 0) = RZero /\ at(C29_Other, 0, 0) = MatrixEpsilon

\* ------------------------------------------------------------------------
\* Canvas: a canvas and the write_pixel calls made on it, one after another
\*   fn_result   the canvas, or the panic that ended the run
\*   fn_args     the canvas before the latest call, and the call's arguments
\* ------------------------------------------------------------------------
MaxCanvasSize == 2

CanvasColors == {Black, White}

InitCanvas ==
    /\ \E width \in 1 .. MaxCanvasSize : \E height \in 1 .. MaxCanvasSize :
          fn_result = Some(Value(canvas(width, height)))
    /\ fn_call = "new" /\ fn_args = None
    /\ MatIdle /\ IxIdle /\ CaIdle /\ RnIdle /\ ShIdle

\* canvas.write_pixel(x, y, color)
CanvasWritePixel ==
    /\ ~fn_result[1].panic
    /\ \E x \in 0 .. MaxCanvasSize : \E y \in 0 .. MaxCanvasSize : \E color \in CanvasColors :
          /\ fn_args' = Some([self |-> fn_result[1].val, x |-> x, y |-> y, color |-> color])
          /\ fn_result' = Some(write_pixel(fn_result[1].val, x, y, color))
    /\ fn_call' = "write_pixel"
    /\ UNCHANGED <<matVars, ixVars, caVars, rnVars, shVars>>

NextCanvas == CanvasWritePixel

SpecCanvas == InitCanvas /\ [][NextCanvas]_vars

C30_Before == fn_args[1].self
C30_After == fn_result[1].val
C30_X == fn_args[1].x
C30_Y == fn_args[1].y
C30_InBounds == C30_X < C30_Before.width /\ C30_Y < C30_Before.height
C30_Pixels(c) == (0 .. c.width - 1) \X (0 .. c.height - 1)

\* the call changed pixel (x, y) and no other
C30_ExactlyOne ==
    /\ ~fn_result[1].panic
    /\ C30_After.width = C30_Before.width /\ C30_After.height = C30_Before.height
    /\ get_pixel(C30_After, C30_X, C30_Y) = fn_args[1].color
    /\ \A p \in C30_Pixels(C30_Before) :
          p # <<C30_X, C30_Y>> =>
              get_pixel(C30_After, p[1], p[2]) = get_pixel(C30_Before, p[1], p[2])

\* the call changed no pixel
C30_NoPixel ==
    fn_result[1].panic \/ C30_After = C30_Before

\* C30: write_pixel(x, y, c) with x < width and y < height changes exactly
\* the pixel get_pixel(x, y) reads and no other, after any sequence of
\* writes; with x >= width or y >= height it modifies no pixel.
C30_WritePixelFrame ==
    fn_call = "write_pixel" =>
        IF C30_InBounds THEN C30_ExactlyOne ELSE C30_NoPixel

\* C30, in bounds: exactly the pixel (x, y) changes
C30_InBoundsFrame ==
    fn_call = "write_pixel" /\ C30_InBounds => C30_ExactlyOne

\* C30, out of bounds: the call panics when width * y + x is past the
\* slice, as for every y >= height, and otherwise writes the cell with that
\* index, which belongs to a pixel of a later row
C30_OutOfBounds ==
    fn_call = "write_pixel" /\ ~C30_InBounds =>
        IF C30_Before.width * C30_Y + C30_X >= C30_Before.width * C30_Before.height
        THEN fn_result[1].panic
        ELSE /\ C30_Y < C30_Before.height - 1
             /\ ~fn_result[1].panic
             /\ C30_After = [C30_Before EXCEPT
                    !.pixels[C30_Before.width * C30_Y + C30_X] = fn_args[1].color]

\* a write in bounds after earlier writes: the pixel changed, another pixel
\* written before is kept
C30_Witness ==
    /\ fn_call = "write_pixel" /\ C30_InBounds
    /\ C30_Before.width = 2 /\ C30_Before.height = 2
    /\ C30_X = 1 /\ C30_Y = 0 /\ fn_args[1].color = White
    /\ get_pixel(C30_Before, 1, 0) = Black /\ get_pixel(C30_After, 1, 0) = White
    /\ get_pixel(C30_Before, 0, 1) = White /\ get_pixel(C30_After, 0, 1) = White
    /\ get_pixel(C30_After, 1, 1) = Black

\* write_pixel(2, 0, white) on a 2x2 canvas colours pixel (0, 1)
C30_WitnessWrap ==
    /\ fn_call = "write_pixel" /\ ~fn_result[1].panic
    /\ C30_Before.width = 2 /\ C30_Before.height = 2
    /\ C30_X = 2 /\ C30_Y = 0 /\ fn_args[1].color = White
    /\ get_pixel(C30_Before, 0, 1) = Black /\ get_pixel(C30_After, 0, 1) = White

\* a call with y >= height panics
C30_WitnessPanic ==
    fn_call = "write_pixel" /\ C30_Y >= C30_Before.height /\ fn_result[1].panic

====
